---- MODULE Spec2Model ----
(***************************************************************************)
(* Model of UUniversalBeatSubsystem (UniversalBeatSubsystem.cpp): the      *)
(* tempo clock with queued BPM changes, the note chart index with its      *)
(* forward-only windowed matcher, and the song/track playback sequencer.   *)
(*                                                                         *)
(* Numbers.  A float is a record [k, v]: k = "num" carries the integer v,  *)
(* k in {"nan", "inf", "ninf"} are the non-finite floats.  Times are       *)
(* integers in units of 1/TimeScale second; window comparisons are done    *)
(* by cross-multiplication with the BPM, so they are exact.  Float         *)
(* rounding is not modelled.                                               *)
(***************************************************************************)
EXTENDS Integers, Sequences, FiniteSets, TLC

VARIABLES
    \* ---- clock (part_014:476-502) ----
    CurrentBPM,               \* float CurrentBPM
    PendingBPM,               \* float PendingBPM, 0 = none queued
    CurrentBeatTick,          \* int32 CurrentBeatTick
    CalibrationOffsetMs,      \* float CalibrationOffsetMs
    bRespectTimeDilation,     \* bool
    bBeatBroadcastingEnabled, \* bool
    CurrentSubdivision,       \* EBeatSubdivision
    BeatBroadcastTimer,       \* FTimerHandle: [active, rate] (rate in microseconds)
    deferredTimerRate,        \* rate captured by the SetTimerForNextTick lambda, 0 = none
    \* ---- note chart index (part_014:566-580) ----
    CachedNotesSorted,        \* TArray<FNoteInstance>
    ConsumedNoteTimestamps,   \* TSet<int32>
    CurrentNoteIndex,         \* int32, 0-based
    CachedSequenceFrameRate,  \* FFrameRate, frames per second
    \* ---- song sequencer (part_014:536-564) ----
    RegisteredSongs,          \* TMap<FGameplayTag, USongConfiguration*>: the registered tags
    QueuedSongs,              \* TQueue<USongConfiguration*>
    QueuedTracks,             \* TQueue<FNoteTrackEntry>
    CurrentlyPlayingSong,     \* USongConfiguration*, 0 = nullptr
    CurrentTrackInfo,         \* FNoteTrackEntry
    TrackDelayTimer,          \* FTimerHandle: [valid, pending, delay]
    CurrentNoteChartSequence, \* ULevelSequence*, 0 = nullptr
    SongPlayerActor,          \* ALevelSequenceActor*: number of the spawned actor, 0 = nullptr
    actorsSpawned,            \* how many actors EnsureSongPlayerActor has spawned
    player,                   \* the actor's ULevelSequencePlayer: [seq, playing, loop, bound]
    \* ---- timing curve and calibration (part_014:488-520) ----
    TimingCurve,              \* UCurveFloat*, 0 = nullptr
    CalibrationPromptsRemaining, \* int32
    CalibrationTotalPrompts,  \* int32
    CalibrationOffsets,       \* TArray<float>, milliseconds
    \* ---- observation ----
    lastOp,                   \* the operation that made the last step and its arguments
    emitted,                  \* delegate broadcasts made by the last step, in order
    lastRequest,              \* argument of the last SetBPM(v), v in [20,400], not yet decided
    lastResult,               \* FNoteValidationResult of the last CheckBeatTimingByTag
    matched,                  \* indices matched since the chart was loaded or reset
    openTrack,                \* index of the track started and not yet ended, -1 = none
    recording,                \* is eventLog being kept (scenario runs)
    eventLog                  \* every broadcast since Initialize, while recording

clockVars == <<CurrentBPM, PendingBPM, CurrentBeatTick, CalibrationOffsetMs,
               bRespectTimeDilation, bBeatBroadcastingEnabled, CurrentSubdivision,
               BeatBroadcastTimer, deferredTimerRate>>
chartVars == <<CachedNotesSorted, ConsumedNoteTimestamps, CurrentNoteIndex,
               CachedSequenceFrameRate>>
seqVars == <<RegisteredSongs, QueuedSongs, QueuedTracks, CurrentlyPlayingSong,
             CurrentTrackInfo, TrackDelayTimer, CurrentNoteChartSequence,
             SongPlayerActor, actorsSpawned, player>>
calVars == <<TimingCurve, CalibrationPromptsRemaining, CalibrationTotalPrompts,
             CalibrationOffsets>>
chartObs == <<lastResult, matched>>
seqObs == <<openTrack, recording, eventLog>>
obsVars == <<lastOp, emitted, lastRequest, chartObs, seqObs>>
vars == <<clockVars, chartVars, seqVars, calVars, obsVars>>

----------------------------------------------------------------------------
(* Program constants *)
DefaultBPM == 120
MinBPM == 20
MaxBPM == 400
InternalSubdivision == 16
MinCalibrationMs == -200
MaxCalibrationMs == 200

(* Bounds of the model *)
MaxTick == 33
MaxQueuedSongs == 1

----------------------------------------------------------------------------
(* Floats *)
Num(x) == [k |-> "num", v |-> x]
NaN == [k |-> "nan", v |-> 0]
PosInf == [k |-> "inf", v |-> 0]
NegInf == [k |-> "ninf", v |-> 0]
NoArg == Num(0)

IsFinite(f) == f.k = "num"
\* f <= 0.0f: false for NaN, true for -Inf
LeqZero(f) == (f.k = "num" /\ f.v <= 0) \/ f.k = "ninf"

Clamp(x, lo, hi) == IF x < lo THEN lo ELSE IF x > hi THEN hi ELSE x

BPMInputs == {Num(-5), Num(0), Num(10), Num(120), Num(180), Num(500),
              NaN, PosInf, NegInf}
CalibrationInputs == {-300, 150}
Subdivisions == {"None", "Whole", "Half", "Quarter", "Eighth", "Sixteenth"}

----------------------------------------------------------------------------
(* Clock helpers *)

GetBPM == CurrentBPM

\* (60 / BPM) / 16 + offsetMs / 1000, in microseconds
GetTimerRate(bpm, offsetMs) ==
    (60000000 \div bpm) \div InternalSubdivision + offsetMs * 1000

GetTicksForSubdivision_QuarterAsHalf(s) ==
    CASE s = "None" -> 0
      [] s = "Whole" -> 16
      [] s \in {"Half", "Quarter"} -> 8
      [] s = "Eighth" -> 2
      [] s = "Sixteenth" -> 1
      [] OTHER -> 0
GetTicksForSubdivision(s) ==
    CASE s = "None" -> 0
      [] s = "Whole" -> 16
      [] s = "Half" -> 8
      [] s = "Quarter" -> 4
      [] s = "Eighth" -> 2
      [] s = "Sixteenth" -> 1
      [] OTHER -> 0

GetCurrentBeatNumber(tick) == tick \div InternalSubdivision

\* FTimerManager::SetTimer: a rate <= 0 leaves the handle without a timer
SetTimer(rate) == [active |-> rate > 0, rate |-> rate]

\* RecreateTimerWithNewRate with the BPM and offset already assigned:
\* yields the new timer, the deferred lambda and the tick counter
RecreateTimer(bpm, offsetMs) ==
    LET rate == GetTimerRate(bpm, offsetMs)
    IN  IF bRespectTimeDilation
        THEN [timer |-> SetTimer(rate), deferred |-> deferredTimerRate, tick |-> 0]
        ELSE [timer |-> [active |-> FALSE, rate |-> BeatBroadcastTimer.rate],
              deferred |-> rate, tick |-> 0]

\* the label of a step: the operation and its (integer) arguments
Call(name, x, y) == [op |-> name, a |-> x, b |-> y]

----------------------------------------------------------------------------
(* Clock operations *)

\* the clock operations touch neither the chart nor the sequencer
ClockFrame == UNCHANGED <<chartVars, seqVars, calVars, chartObs, seqObs>>

\* the inputs the documentation of SetBPM calls invalid (<=0, NaN, Inf);
\* used to label the step, independently of the test the code makes
NonPositiveOrNonFinite(f) == f.k # "num" \/ f.v <= 0

SetBPMInvalid_FiniteOnly(f) == f.k = "num" /\ f.v <= 0
SetBPMInvalid(f) == LeqZero(f) \/ ~IsFinite(f)

\* the value SetBPM queues for a valid input
SetBPMClamped_NoClamp(x) == x
SetBPMClamped(x) == Clamp(x, MinBPM, MaxBPM)

SetBPM(f) ==
    /\ lastOp' = Call(IF NonPositiveOrNonFinite(f) THEN "SetBPM.invalid" ELSE "SetBPM", 0, 0)
    /\ ClockFrame
    /\ emitted' = <<>>
    /\ IF SetBPMInvalid(f)
       THEN LET r == RecreateTimer(DefaultBPM, CalibrationOffsetMs)
            IN  /\ CurrentBPM' = DefaultBPM
                /\ PendingBPM' = 0
                /\ BeatBroadcastTimer' = r.timer
                /\ deferredTimerRate' = r.deferred
                /\ CurrentBeatTick' = r.tick
                /\ lastRequest' = 0
       ELSE LET NewBPM == SetBPMClamped(f.v)
            IN  /\ PendingBPM' = IF NewBPM # CurrentBPM THEN NewBPM ELSE PendingBPM
                /\ lastRequest' = IF f.v >= MinBPM /\ f.v <= MaxBPM THEN f.v ELSE 0
                /\ UNCHANGED <<CurrentBPM, BeatBroadcastTimer, deferredTimerRate,
                               CurrentBeatTick>>
    /\ UNCHANGED <<CalibrationOffsetMs, bRespectTimeDilation,
                   bBeatBroadcastingEnabled, CurrentSubdivision>>

SetRespectTimeDilation(b) ==
    /\ bRespectTimeDilation' = b
    /\ lastOp' = Call("SetRespectTimeDilation", 0, 0)
    /\ ClockFrame
    /\ emitted' = <<>>
    /\ UNCHANGED <<CurrentBPM, PendingBPM, CurrentBeatTick, CalibrationOffsetMs,
                   bBeatBroadcastingEnabled, CurrentSubdivision, BeatBroadcastTimer,
                   deferredTimerRate, lastRequest>>

SetCalibrationOffset_NoClamp(ms) ==
    LET r == RecreateTimer(CurrentBPM, ms)
    IN  /\ CalibrationOffsetMs' = ms
        /\ BeatBroadcastTimer' = r.timer
        /\ deferredTimerRate' = r.deferred
        /\ CurrentBeatTick' = r.tick
        /\ lastOp' = Call("SetCalibrationOffset", ms, 0)
        /\ ClockFrame
        /\ emitted' = <<>>
        /\ UNCHANGED <<CurrentBPM, PendingBPM, bRespectTimeDilation,
                       bBeatBroadcastingEnabled, CurrentSubdivision, lastRequest>>
SetCalibrationOffset(ms) ==
    LET ClampedOffset == Clamp(ms, MinCalibrationMs, MaxCalibrationMs)
        r == RecreateTimer(CurrentBPM, ClampedOffset)
    IN  /\ CalibrationOffsetMs' = ClampedOffset
        /\ BeatBroadcastTimer' = r.timer
        /\ deferredTimerRate' = r.deferred
        /\ CurrentBeatTick' = r.tick
        /\ lastOp' = Call("SetCalibrationOffset", ms, 0)
        /\ ClockFrame
        /\ emitted' = <<>>
        /\ UNCHANGED <<CurrentBPM, PendingBPM, bRespectTimeDilation,
                       bBeatBroadcastingEnabled, CurrentSubdivision, lastRequest>>

EnableBeatBroadcasting(s) ==
    /\ bBeatBroadcastingEnabled' = TRUE
    /\ CurrentSubdivision' = s
    /\ lastOp' = Call("EnableBeatBroadcasting", 0, 0)
    /\ ClockFrame
    /\ emitted' = <<>>
    /\ UNCHANGED <<CurrentBPM, PendingBPM, CurrentBeatTick, CalibrationOffsetMs,
                   bRespectTimeDilation, BeatBroadcastTimer, deferredTimerRate,
                   lastRequest>>

DisableBeatBroadcasting_StopsTimer ==
    /\ bBeatBroadcastingEnabled' = FALSE
    /\ CurrentSubdivision' = "None"
    /\ BeatBroadcastTimer' = [BeatBroadcastTimer EXCEPT !.active = FALSE]
    /\ lastOp' = Call("DisableBeatBroadcasting", 0, 0)
    /\ ClockFrame
    /\ emitted' = <<>>
    /\ UNCHANGED <<CurrentBPM, PendingBPM, CurrentBeatTick, CalibrationOffsetMs,
                   bRespectTimeDilation, deferredTimerRate, lastRequest>>
DisableBeatBroadcasting ==
    /\ bBeatBroadcastingEnabled' = FALSE
    /\ CurrentSubdivision' = "None"
    /\ lastOp' = Call("DisableBeatBroadcasting", 0, 0)
    /\ ClockFrame
    /\ emitted' = <<>>
    /\ UNCHANGED <<CurrentBPM, PendingBPM, CurrentBeatTick, CalibrationOffsetMs,
                   bRespectTimeDilation, BeatBroadcastTimer, deferredTimerRate,
                   lastRequest>>

\* the lambda handed to SetTimerForNextTick runs at the start of the next frame
DeferredSetTimer ==
    /\ deferredTimerRate # 0
    /\ BeatBroadcastTimer' = SetTimer(deferredTimerRate)
    /\ deferredTimerRate' = 0
    /\ lastOp' = Call("DeferredSetTimer", 0, 0)
    /\ ClockFrame
    /\ emitted' = <<>>
    /\ UNCHANGED <<CurrentBPM, PendingBPM, CurrentBeatTick, CalibrationOffsetMs,
                   bRespectTimeDilation, bBeatBroadcastingEnabled, CurrentSubdivision,
                   lastRequest>>

\* is a queued BPM applied on the tick that brings the counter to `tick`?
ApplyPending_AnyTick(pending, tick) == pending > 0
ApplyPending(pending, tick) == pending > 0 /\ tick % InternalSubdivision = 0

\* subdivision filtering: whether the tick broadcasts a beat event
ShouldBroadcast_EveryTick(enabled, TicksPerBroadcast, tick) ==
    enabled /\ TicksPerBroadcast > 0
ShouldBroadcast(enabled, TicksPerBroadcast, tick) ==
    /\ enabled
    /\ TicksPerBroadcast > 0
    /\ tick % TicksPerBroadcast = 0

\* the index of the broadcast within its beat
SubdivisionIndex_NoWrap(tick, TicksPerBroadcast) == tick \div TicksPerBroadcast
SubdivisionIndex(tick, TicksPerBroadcast) ==
    LET SubdivisionsPerBeat == InternalSubdivision \div TicksPerBroadcast
    IN  (tick \div TicksPerBroadcast) % SubdivisionsPerBeat

\* the timer callback
BroadcastBeatEvent ==
    /\ BeatBroadcastTimer.active
    /\ CurrentBeatTick < MaxTick
    /\ lastOp' = Call("BroadcastBeatEvent", 0, 0)
    /\ ClockFrame
    /\ LET tick == CurrentBeatTick + 1
       IN  IF ApplyPending(PendingBPM, tick)
           THEN LET r == RecreateTimer(PendingBPM, CalibrationOffsetMs)
                IN  /\ CurrentBPM' = PendingBPM
                    /\ PendingBPM' = 0
                    /\ emitted' = <<[ev |-> "BPMChanged", n |-> PendingBPM]>>
                    /\ BeatBroadcastTimer' = r.timer
                    /\ deferredTimerRate' = r.deferred
                    /\ CurrentBeatTick' = r.tick
                    /\ lastRequest' = 0
           ELSE /\ CurrentBeatTick' = tick
                /\ LET TicksPerBroadcast == GetTicksForSubdivision(CurrentSubdivision)
                   IN  emitted' =
                         IF ShouldBroadcast(bBeatBroadcastingEnabled, TicksPerBroadcast, tick)
                         THEN <<[ev |-> "Beat",
                                 n |-> SubdivisionIndex(tick, TicksPerBroadcast),
                                 SubdivisionType |-> CurrentSubdivision,
                                 BeatNumber |-> GetCurrentBeatNumber(tick)]>>
                         ELSE <<>>
                /\ lastRequest' = IF tick % InternalSubdivision = 0 THEN 0 ELSE lastRequest
                /\ UNCHANGED <<CurrentBPM, PendingBPM, BeatBroadcastTimer,
                               deferredTimerRate>>
    /\ UNCHANGED <<CalibrationOffsetMs, bRespectTimeDilation,
                   bBeatBroadcastingEnabled, CurrentSubdivision>>

\* UUniversalBeatFunctionLibrary::IsNoteSubdivision on a beat event (its
\* GetTicksForSubdivision is the same table as the subsystem's)
IsNoteSubdivision(BeatEvent, TargetSubdivision) ==
    LET TicksPerSubdivision == GetTicksForSubdivision(TargetSubdivision)
        BroadcastTicks == GetTicksForSubdivision(BeatEvent.SubdivisionType)
    IN  IF TicksPerSubdivision <= 0 THEN FALSE
        ELSE IF TicksPerSubdivision > BroadcastTicks THEN FALSE
        ELSE IF TargetSubdivision = BeatEvent.SubdivisionType THEN TRUE
        ELSE LET TicksPerBroadcast == TicksPerSubdivision \div BroadcastTicks
             IN  IF TicksPerBroadcast = 0 THEN BeatEvent.n = 0
                 ELSE BeatEvent.n % TicksPerBroadcast = 0

\* a listener of OnBeat asks IsNoteSubdivision about the event it was handed;
\* lastOp records the target and the answer, the event stays in emitted
CallIsNoteSubdivision(TargetSubdivision) ==
    /\ emitted # <<>>
    /\ emitted[1].ev = "Beat"
    /\ lastOp' = Call("IsNoteSubdivision", TargetSubdivision,
                      IsNoteSubdivision(emitted[1], TargetSubdivision))
    /\ ClockFrame
    /\ UNCHANGED <<clockVars, emitted, lastRequest>>

----------------------------------------------------------------------------
(* Assets: note data, level sequences, song configurations *)

TimeScale == 12000        \* time units per second
AccuracyScale == 1000     \* accuracy 1.0

\* gameplay tags are numbers, 0 is the invalid (empty) tag
InvalidTag == 0
TagX == 1
TagY == 2

\* UNoteDataAsset: tag, pre- and post-timing; 0 is a null NoteData pointer
NoteTag(d) == CASE d = 1 -> TagX [] d = 2 -> TagY [] d = 3 -> TagX [] OTHER -> InvalidTag
GetPreTiming(d) == CASE d = 1 -> "Quarter" [] d = 2 -> "Sixteenth" [] d = 3 -> "Whole"
                     [] OTHER -> "Quarter"
GetPostTiming(d) == CASE d = 1 -> "Eighth" [] d = 2 -> "Sixteenth" [] d = 3 -> "Half"
                      [] OTHER -> "Quarter"

Note(ts, d) == [Timestamp |-> ts, NoteData |-> d]

\* ULevelSequence assets.  0 is a null pointer; asset 4 is a soft reference
\* that LoadSynchronous cannot resolve; asset 3 has a note chart track
\* without notes; asset 5 has no note chart track; asset 6 is a chart whose
\* notes have pairwise distinct timestamps and overlapping windows.
LevelSequences == {1, 2, 3, 5}
DistinctChart == 6
AllSequences == LevelSequences \cup {DistinctChart}
AssetLoads(a) == a \in AllSequences
\* RuntimeNotes of the note chart sections, in track and section order
AssetNotes(a) ==
    CASE a = 1 -> <<Note(120, 1)>>
      [] a = 2 -> <<Note(130, 2), Note(120, 1), Note(120, 3)>>
      [] a = 6 -> <<Note(125, 2), Note(160, 1), Note(120, 1)>>
      [] OTHER -> <<>>
AssetHasNoteChartTrack(a) == a \in {1, 2, 3, 6}
AssetDisplayRate(a) == 60

\* FNoteTrackEntry
Track(a, delay, loops) == [TrackSequence |-> a, DelayOffset |-> delay, LoopCount |-> loops]
NoTrack == Track(0, 0, 0)

\* USongConfiguration::Tracks by song tag; 0 is no song
Songs == {1, 2, 3, 4}
SongTracks(s) ==
    CASE s = 1 -> <<Track(1, 0, 0), Track(2, 3, 0)>>
      [] s = 2 -> <<Track(2, 2, 0), Track(1, 0, 0)>>
      [] s = 3 -> <<>>
      [] s = 4 -> <<Track(4, 0, 0)>>
      [] s = 5 -> <<Track(4, 0, 0), Track(1, 0, 0), Track(4, 2, 0), Track(2, 3, 0)>>
      [] OTHER -> <<>>

----------------------------------------------------------------------------
(* Note chart index *)

ConvertMusicalNoteToSeconds_QuarterAsEighth(NoteValue, BPM) ==
    IF BPM <= 0 THEN 0
    ELSE LET QuarterNoteSeconds == (60 * TimeScale) \div BPM
         IN  CASE NoteValue = "Sixteenth" -> QuarterNoteSeconds \div 4
               [] NoteValue = "Eighth" -> QuarterNoteSeconds \div 2
               [] NoteValue = "Quarter" -> QuarterNoteSeconds \div 2
               [] NoteValue = "Half" -> QuarterNoteSeconds * 2
               [] NoteValue = "Whole" -> QuarterNoteSeconds * 4
               [] OTHER -> QuarterNoteSeconds
ConvertMusicalNoteToSeconds(NoteValue, BPM) ==
    IF BPM <= 0 THEN 0
    ELSE LET QuarterNoteSeconds == (60 * TimeScale) \div BPM
         IN  CASE NoteValue = "Sixteenth" -> QuarterNoteSeconds \div 4
               [] NoteValue = "Eighth" -> QuarterNoteSeconds \div 2
               [] NoteValue = "Quarter" -> QuarterNoteSeconds
               [] NoteValue = "Half" -> QuarterNoteSeconds * 2
               [] NoteValue = "Whole" -> QuarterNoteSeconds * 4
               [] OTHER -> QuarterNoteSeconds

FrameToSeconds(Frame, rate) == (Frame * TimeScale) \div rate

\* TArray::Sort is not stable: any order of the notes that is ascending by
\* timestamp can come out
Injective(f) == \A i, j \in DOMAIN f : f[i] = f[j] => i = j
Ascending(ns) == \A i, j \in 1..Len(ns) : i < j => ns[i].Timestamp <= ns[j].Timestamp
SortedOrders_AnyOrder(ns) ==
    LET n == Len(ns)
        perms == {f \in [1..n -> 1..n] : Injective(f)}
    IN  {[i \in 1..n |-> ns[f[i]]] : f \in perms}
SortedOrders(ns) ==
    LET n == Len(ns)
        perms == {f \in [1..n -> 1..n] : Injective(f)}
    IN  {o \in {[i \in 1..n |-> ns[f[i]]] : f \in perms} : Ascending(o)}

\* one outcome of the sort for every asset
SortChoices == {o \in [AllSequences -> UNION {SortedOrders(AssetNotes(a)) : a \in AllSequences}] :
                  \A a \in AllSequences : o[a] \in SortedOrders(AssetNotes(a))}

WindowStart(n, bpm, rate) ==
    FrameToSeconds(n.Timestamp, rate) - ConvertMusicalNoteToSeconds(GetPreTiming(n.NoteData), bpm)
WindowEnd(n, bpm, rate) ==
    FrameToSeconds(n.Timestamp, rate) + ConvertMusicalNoteToSeconds(GetPostTiming(n.NoteData), bpm)

InWindow_Exclusive(n, t, bpm, rate) == t > WindowStart(n, bpm, rate) /\ t < WindowEnd(n, bpm, rate)
InWindow(n, t, bpm, rate) == t >= WindowStart(n, bpm, rate) /\ t <= WindowEnd(n, bpm, rate)

IsNoteConsumed_Never(consumed, n) == FALSE
IsNoteConsumed(consumed, n) == n.Timestamp \in consumed

\* the scan of GetNextNoteForTag from 0-based index i: the 0-based index of
\* the match, -1 if there is none
RECURSIVE ScanNotes(_, _, _, _, _, _, _)
ScanNotes_FirstOnly(notes, consumed, i, tag, t, bpm, rate) ==
    IF i >= Len(notes) THEN -1
    ELSE LET n == notes[i + 1]
         IN  IF /\ ~IsNoteConsumed(consumed, n)
                /\ n.NoteData # 0
                /\ NoteTag(n.NoteData) = tag
                /\ InWindow(n, t, bpm, rate)
             THEN i ELSE -1
ScanNotes(notes, consumed, i, tag, t, bpm, rate) ==
    IF i >= Len(notes) THEN -1
    ELSE LET n == notes[i + 1]
         IN  IF IsNoteConsumed(consumed, n)
                THEN ScanNotes(notes, consumed, i + 1, tag, t, bpm, rate)
             ELSE IF n.NoteData = 0 \/ NoteTag(n.NoteData) # tag
                THEN ScanNotes(notes, consumed, i + 1, tag, t, bpm, rate)
             ELSE IF InWindow(n, t, bpm, rate) THEN i
             ELSE IF t > WindowEnd(n, bpm, rate)
                THEN ScanNotes(notes, consumed, i + 1, tag, t, bpm, rate)
             ELSE -1

GetNextNoteForTag(tag, t) ==
    IF tag = InvalidTag \/ Len(CachedNotesSorted) = 0 THEN -1
    ELSE ScanNotes(CachedNotesSorted, ConsumedNoteTimestamps, CurrentNoteIndex, tag, t,
                   CurrentBPM, CachedSequenceFrameRate)

Abs(x) == IF x < 0 THEN -x ELSE x

\* Curve assets: 0 is nullptr, OvershootCurve has keys and leaves [0,1] at both
\* ends of its domain, EmptyCurve is an asset without keys
OvershootCurve == 1
EmptyCurve == 2
TimingCurves == {0, OvershootCurve, EmptyCurve}
CurveNumKeys(c) == IF c = OvershootCurve THEN 2 ELSE 0
\* UCurveFloat::GetFloatValue of the overshoot curve: the line from (0, 1.5) to (1, -0.5)
CurveGetFloatValue(c, x) == (3 * AccuracyScale) \div 2 - 2 * x

\* the fallback of EvaluateTimingCurve: the triangle on [0,1] peaking at 0.5
LinearFallback(BeatPhase) ==
    IF 2 * BeatPhase <= AccuracyScale THEN BeatPhase * 2
    ELSE (AccuracyScale - BeatPhase) * 2

\* EvaluateTimingCurve (input and output scaled by AccuracyScale)
EvaluateTimingCurve_NoClamp(BeatPhase) ==
    IF TimingCurve # 0 /\ CurveNumKeys(TimingCurve) > 0
    THEN CurveGetFloatValue(TimingCurve, BeatPhase)
    ELSE LinearFallback(BeatPhase)
EvaluateTimingCurve(BeatPhase) ==
    LET RawValue == IF TimingCurve # 0 /\ CurveNumKeys(TimingCurve) > 0
                    THEN CurveGetFloatValue(TimingCurve, BeatPhase)
                    ELSE LinearFallback(BeatPhase)
    IN  Clamp(RawValue, 0, AccuracyScale)

\* CalculateBeatPhase: -1 while the timer is not active, else the remaining
\* fraction of the interval (phase is the fraction read from the timer)
CalculateBeatPhase(phase) ==
    IF ~BeatBroadcastTimer.active THEN -AccuracyScale
    ELSE Clamp(phase, -AccuracyScale, AccuracyScale)

\* CheckBeatTimingInternal: the timing value it returns and broadcasts
CheckBeatTimingInternal(phase) == EvaluateTimingCurve(Abs(CalculateBeatPhase(phase)))

Directions == {"Early", "OnTime", "Late"}
\* |offset| < 0.001 s
OnTimeTolerance == TimeScale \div 1000

----------------------------------------------------------------------------
(* The chart and sequencer state as one record, so that a handler and the   *)
(* handlers it calls can be composed; ev collects the broadcasts.           *)

Here ==
    [CachedNotesSorted |-> CachedNotesSorted,
     ConsumedNoteTimestamps |-> ConsumedNoteTimestamps,
     CurrentNoteIndex |-> CurrentNoteIndex,
     CachedSequenceFrameRate |-> CachedSequenceFrameRate,
     RegisteredSongs |-> RegisteredSongs,
     QueuedSongs |-> QueuedSongs,
     QueuedTracks |-> QueuedTracks,
     CurrentlyPlayingSong |-> CurrentlyPlayingSong,
     CurrentTrackInfo |-> CurrentTrackInfo,
     TrackDelayTimer |-> TrackDelayTimer,
     CurrentNoteChartSequence |-> CurrentNoteChartSequence,
     SongPlayerActor |-> SongPlayerActor,
     actorsSpawned |-> actorsSpawned,
     player |-> player,
     matched |-> matched,
     ev |-> <<>>]

Ev(name, x) == [ev |-> name, n |-> x]
Broadcast(st, e) == [st EXCEPT !.ev = Append(@, e)]

NoTimer == [valid |-> FALSE, pending |-> FALSE, delay |-> 0]
NoPlayer == [seq |-> 0, playing |-> FALSE, loop |-> 0, bound |-> FALSE]

ClearNoteChart_KeepsConsumed(st) ==
    [st EXCEPT !.CachedNotesSorted = <<>>,
               !.CurrentNoteIndex = 0,
               !.matched = {}]
ClearNoteChart(st) ==
    [st EXCEPT !.CachedNotesSorted = <<>>,
               !.ConsumedNoteTimestamps = {},
               !.CurrentNoteIndex = 0,
               !.matched = {}]

\* LoadNoteChartFromSequence; a = 0 is the null sequence, every asset has a
\* movie scene
LoadNoteChartFromSequence_KeepsConsumed(st, a, order) ==
    IF a = 0 THEN st
    ELSE [st EXCEPT !.CachedNotesSorted = order[a],
                    !.CurrentNoteIndex = 0,
                    !.CachedSequenceFrameRate = AssetDisplayRate(a),
                    !.matched = {}]
LoadNoteChartFromSequence(st, a, order) ==
    IF a = 0 THEN st
    ELSE [st EXCEPT !.CachedNotesSorted = order[a],
                    !.ConsumedNoteTimestamps = {},
                    !.CurrentNoteIndex = 0,
                    !.CachedSequenceFrameRate = AssetDisplayRate(a),
                    !.matched = {}]

\* the value LoadNoteChartFromSequence returns
LoadNoteChartFromSequenceReturns(st, a, order) ==
    IF a = 0 THEN FALSE
    ELSE Len(LoadNoteChartFromSequence(st, a, order).CachedNotesSorted) > 0

\* ALevelSequenceActor::SetSequence takes the sequence only while the player
\* is not playing
SetSequence(st, a) ==
    IF st.player.playing THEN st ELSE [st EXCEPT !.player.seq = a]

\* Player->Play()
Play(st) == [st EXCEPT !.player.playing = TRUE]

EnsureSongPlayerActor(st) ==
    IF st.SongPlayerActor # 0 THEN st
    ELSE [st EXCEPT !.SongPlayerActor = st.actorsSpawned + 1,
                    !.actorsSpawned = @ + 1,
                    !.player = NoPlayer]

\* Player->Stop() when the player exists and is playing
StopPlayer(st) ==
    IF st.SongPlayerActor # 0 /\ st.player.playing
    THEN [st EXCEPT !.player.playing = FALSE] ELSE st

CleanupSongPlayback_KeepsTimer(st) ==
    ClearNoteChart([StopPlayer(st) EXCEPT !.QueuedTracks = <<>>,
                                          !.CurrentTrackInfo = NoTrack,
                                          !.CurrentlyPlayingSong = 0])
CleanupSongPlayback_KeepsTracks(st) ==
    LET s1 == StopPlayer(st)
        s2 == IF s1.TrackDelayTimer.valid THEN [s1 EXCEPT !.TrackDelayTimer = NoTimer] ELSE s1
    IN  ClearNoteChart([s2 EXCEPT !.CurrentTrackInfo = NoTrack,
                                  !.CurrentlyPlayingSong = 0])
CleanupSongPlayback(st) ==
    LET s1 == StopPlayer(st)
        s2 == IF s1.TrackDelayTimer.valid THEN [s1 EXCEPT !.TrackDelayTimer = NoTimer] ELSE s1
    IN  ClearNoteChart([s2 EXCEPT !.QueuedTracks = <<>>,
                                  !.CurrentTrackInfo = NoTrack,
                                  !.CurrentlyPlayingSong = 0])

StopCurrentSongR_NoCleanup(st) ==
    IF st.CurrentlyPlayingSong = 0 THEN st
    ELSE Broadcast([st EXCEPT !.CurrentlyPlayingSong = 0],
                   Ev("SongEnded", st.CurrentlyPlayingSong))
StopCurrentSongR_NoGuard(st) ==
    Broadcast(CleanupSongPlayback(st), Ev("SongEnded", st.CurrentlyPlayingSong))
StopCurrentSongR(st) ==
    IF st.CurrentlyPlayingSong = 0 THEN st
    ELSE Broadcast(CleanupSongPlayback(st), Ev("SongEnded", st.CurrentlyPlayingSong))

\* the index OnTrackDelayComplete and OnTrackSequenceFinished broadcast: the
\* first track of the song with CurrentTrackInfo's sequence, 0 if there is none
TrackIndexOf(st) ==
    LET tracks == SongTracks(st.CurrentlyPlayingSong)
        hits == {i \in 1..Len(tracks) :
                   tracks[i].TrackSequence = st.CurrentTrackInfo.TrackSequence}
    IN  IF hits = {} THEN 0
        ELSE (CHOOSE i \in hits : \A j \in hits : i <= j) - 1

StartTrackWithDelay(st, DelaySeconds) ==
    [st EXCEPT !.TrackDelayTimer = [valid |-> TRUE, pending |-> TRUE, delay |-> DelaySeconds]]

RECURSIVE PlaySongR(_, _)
RECURSIVE PlayTrackR(_, _)

CheckSongCompletion_NoSongEnded(st, order) ==
    IF st.CurrentlyPlayingSong = 0 THEN st
    ELSE IF st.QueuedTracks = <<>>
         THEN PlaySongR(CleanupSongPlayback(st), order)
         ELSE st
CheckSongCompletion(st, order) ==
    IF st.CurrentlyPlayingSong = 0 THEN st
    ELSE IF st.QueuedTracks = <<>>
         THEN PlaySongR(CleanupSongPlayback(
                            Broadcast(st, Ev("SongEnded", st.CurrentlyPlayingSong))), order)
         ELSE st

OnTrackDelayCompleteR(st, order) ==
    IF st.CurrentlyPlayingSong = 0 THEN st
    ELSE IF ~AssetLoads(st.CurrentTrackInfo.TrackSequence) THEN PlayTrackR(st, order)
    ELSE LET a == st.CurrentTrackInfo.TrackSequence
             s1 == EnsureSongPlayerActor(st)
             s2 == LoadNoteChartFromSequence(SetSequence(s1, a), a, order)
             s3 == Play([s2 EXCEPT !.player.loop = st.CurrentTrackInfo.LoopCount,
                                   !.player.bound = TRUE])
         IN  Broadcast(s3, Ev("TrackStarted", TrackIndexOf(s3)))

PlayTrackR_StopsOnFailure(st, order) ==
    IF st.QueuedTracks = <<>> THEN CheckSongCompletion(st, order)
    ELSE LET s1 == [st EXCEPT !.QueuedTracks = Tail(@),
                              !.CurrentTrackInfo = Head(st.QueuedTracks)]
         IN  IF ~AssetLoads(s1.CurrentTrackInfo.TrackSequence) THEN s1
             ELSE IF s1.CurrentTrackInfo.DelayOffset > 0
                  THEN StartTrackWithDelay(s1, s1.CurrentTrackInfo.DelayOffset)
                  ELSE OnTrackDelayCompleteR(s1, order)
PlayTrackR(st, order) ==
    IF st.QueuedTracks = <<>> THEN CheckSongCompletion(st, order)
    ELSE LET s1 == [st EXCEPT !.QueuedTracks = Tail(@),
                              !.CurrentTrackInfo = Head(st.QueuedTracks)]
         IN  IF ~AssetLoads(s1.CurrentTrackInfo.TrackSequence) THEN PlayTrackR(s1, order)
             ELSE IF s1.CurrentTrackInfo.DelayOffset > 0
                  THEN StartTrackWithDelay(s1, s1.CurrentTrackInfo.DelayOffset)
                  ELSE OnTrackDelayCompleteR(s1, order)

PlaySongR_StopsOnEmpty(st, order) ==
    IF st.QueuedSongs = <<>> THEN st
    ELSE LET NextSong == Head(st.QueuedSongs)
             s1 == Broadcast([st EXCEPT !.QueuedSongs = Tail(@),
                                        !.CurrentlyPlayingSong = NextSong],
                             Ev("SongStarted", NextSong))
         IN  IF SongTracks(NextSong) = <<>>
             THEN [s1 EXCEPT !.CurrentlyPlayingSong = 0]
             ELSE PlayTrackR([s1 EXCEPT !.QueuedTracks = SongTracks(NextSong)], order)
PlaySongR(st, order) ==
    IF st.QueuedSongs = <<>> THEN st
    ELSE LET NextSong == Head(st.QueuedSongs)
             s1 == Broadcast([st EXCEPT !.QueuedSongs = Tail(@),
                                        !.CurrentlyPlayingSong = NextSong],
                             Ev("SongStarted", NextSong))
         IN  IF SongTracks(NextSong) = <<>>
             THEN PlaySongR([s1 EXCEPT !.CurrentlyPlayingSong = 0], order)
             ELSE PlayTrackR([s1 EXCEPT !.QueuedTracks = SongTracks(NextSong)], order)

OnTrackSequenceFinished(st, order) ==
    IF st.CurrentlyPlayingSong = 0 THEN st
    ELSE PlayTrackR(Broadcast(st, Ev("TrackEnded", TrackIndexOf(st))), order)

StopNoteChartSequenceR(st) ==
    ClearNoteChart([StopPlayer(st) EXCEPT !.CurrentNoteChartSequence = 0])

PlayNoteChartSequenceR(st, a, order) ==
    IF a = 0 \/ ~AssetHasNoteChartTrack(a) THEN st
    ELSE LET s1 == EnsureSongPlayerActor(st)
             s2 == IF s1.CurrentNoteChartSequence # 0 THEN StopNoteChartSequenceR(s1) ELSE s1
             s3 == LoadNoteChartFromSequence(
                       [SetSequence(s2, a) EXCEPT !.CurrentNoteChartSequence = a], a, order)
         IN  IF Len(s3.CachedNotesSorted) = 0
             THEN [s3 EXCEPT !.CurrentNoteChartSequence = 0]
             ELSE Play(s3)

PlaySongByTagR_KeepsQueue(st, SongTag, bQueue, order) ==
    IF SongTag \notin st.RegisteredSongs THEN st
    ELSE LET s1 == IF bQueue THEN st ELSE StopCurrentSongR(st)
             s2 == [s1 EXCEPT !.QueuedSongs = Append(@, SongTag)]
         IN  IF s2.CurrentlyPlayingSong = 0 THEN PlaySongR(s2, order) ELSE s2
PlaySongByTagR(st, SongTag, bQueue, order) ==
    IF SongTag \notin st.RegisteredSongs THEN st
    ELSE LET s1 == IF bQueue THEN st
                   ELSE StopCurrentSongR([st EXCEPT !.QueuedSongs = <<>>])
             s2 == [s1 EXCEPT !.QueuedSongs = Append(@, SongTag)]
         IN  IF s2.CurrentlyPlayingSong = 0 THEN PlaySongR(s2, order) ELSE s2

UnregisterSongR(st, SongTag) ==
    IF SongTag \notin st.RegisteredSongs THEN st
    ELSE LET s1 == IF st.CurrentlyPlayingSong = SongTag THEN StopCurrentSongR(st) ELSE st
         IN  [s1 EXCEPT !.RegisteredSongs = @ \ {SongTag}]

----------------------------------------------------------------------------
(* Observation of the broadcasts *)

\* the track left open by a run of broadcasts
RECURSIVE OpenAfter(_, _)
OpenAfter(open, ev) ==
    IF ev = <<>> THEN open
    ELSE OpenAfter(CASE Head(ev).ev = "TrackStarted" -> Head(ev).n
                     [] Head(ev).ev \in {"TrackEnded", "SongEnded"} -> -1
                     [] OTHER -> open,
                   Tail(ev))

\* the step takes the chart and sequencer to st and broadcasts st.ev
Commit(st) ==
    /\ CachedNotesSorted' = st.CachedNotesSorted
    /\ ConsumedNoteTimestamps' = st.ConsumedNoteTimestamps
    /\ CurrentNoteIndex' = st.CurrentNoteIndex
    /\ CachedSequenceFrameRate' = st.CachedSequenceFrameRate
    /\ RegisteredSongs' = st.RegisteredSongs
    /\ QueuedSongs' = st.QueuedSongs
    /\ QueuedTracks' = st.QueuedTracks
    /\ CurrentlyPlayingSong' = st.CurrentlyPlayingSong
    /\ CurrentTrackInfo' = st.CurrentTrackInfo
    /\ TrackDelayTimer' = st.TrackDelayTimer
    /\ CurrentNoteChartSequence' = st.CurrentNoteChartSequence
    /\ SongPlayerActor' = st.SongPlayerActor
    /\ actorsSpawned' = st.actorsSpawned
    /\ player' = st.player
    /\ matched' = st.matched
    /\ emitted' = st.ev
    /\ openTrack' = OpenAfter(openTrack, st.ev)
    /\ eventLog' = IF recording THEN eventLog \o st.ev ELSE eventLog
    /\ UNCHANGED <<clockVars, calVars, lastRequest, lastResult, recording>>

----------------------------------------------------------------------------
(* Sequencer and chart operations *)

RegisterSong(SongTag) ==
    /\ lastOp' = Call("RegisterSong", SongTag, 0)
    /\ Commit([Here EXCEPT !.RegisteredSongs = @ \cup {SongTag}])

UnregisterSong(SongTag) ==
    /\ lastOp' = Call("UnregisterSong", SongTag, 0)
    /\ Commit(UnregisterSongR(Here, SongTag))

PlaySongByTag(SongTag, bQueue, order) ==
    /\ lastOp' = Call("PlaySongByTag", SongTag, IF bQueue THEN 1 ELSE 0)
    /\ Commit(PlaySongByTagR(Here, SongTag, bQueue, order))

StopCurrentSong ==
    /\ lastOp' = Call("StopCurrentSong", 0, 0)
    /\ Commit(StopCurrentSongR(Here))

PlayNoteChartSequence(a, order) ==
    /\ lastOp' = Call("PlayNoteChartSequence", a, 0)
    /\ Commit(PlayNoteChartSequenceR(Here, a, order))

\* a call of LoadNoteChartFromSequence on its own
CallLoadNoteChartFromSequence(a, order) ==
    /\ lastOp' = Call("LoadNoteChartFromSequence", a,
                      LoadNoteChartFromSequenceReturns(Here, a, order))
    /\ Commit(LoadNoteChartFromSequence(Here, a, order))

StopNoteChartSequence ==
    /\ lastOp' = Call("StopNoteChartSequence", 0, 0)
    /\ Commit(StopNoteChartSequenceR(Here))

ResetConsumedNotes ==
    /\ lastOp' = Call("ResetConsumedNotes", 0, 0)
    /\ Commit([Here EXCEPT !.ConsumedNoteTimestamps = {},
                           !.CurrentNoteIndex = 0,
                           !.matched = {}])

\* the one-shot TrackDelayTimer fires
TrackDelayTimerFires(order) ==
    /\ TrackDelayTimer.pending
    /\ lastOp' = Call("OnTrackDelayComplete", 0, 0)
    /\ Commit(OnTrackDelayCompleteR([Here EXCEPT !.TrackDelayTimer.pending = FALSE], order))

\* the player reaches the end of its sequence (after its loops) and
\* broadcasts OnFinished
OnSongPlayerFinished(order) ==
    /\ SongPlayerActor # 0
    /\ player.playing
    /\ lastOp' = Call("OnSongPlayerFinished", 0, 0)
    /\ LET s1 == [Here EXCEPT !.player.playing = FALSE]
       IN  Commit(IF player.bound THEN OnTrackSequenceFinished(s1, order) ELSE s1)

\* GetCurrentPlaybackTime: the player's frame while it plays, else wall time;
\* x is what the source that is read returns
GetCurrentPlaybackTime(x) ==
    IF SongPlayerActor # 0 /\ player.playing
    THEN FrameToSeconds(x, CachedSequenceFrameRate) ELSE x

SetTimingCurve(NewCurve) ==
    /\ TimingCurve' = NewCurve
    /\ lastOp' = Call("SetTimingCurve", NewCurve, 0)
    /\ emitted' = <<>>
    /\ UNCHANGED <<clockVars, chartVars, seqVars, CalibrationPromptsRemaining,
                   CalibrationTotalPrompts, CalibrationOffsets, lastRequest,
                   chartObs, seqObs>>

\* CheckBeatTimingByLabel: lastOp records the beat phase and the value returned
CheckBeatTimingByLabel(phase) ==
    LET TimingValue == CheckBeatTimingInternal(phase)
    IN  /\ lastOp' = Call("CheckBeatTimingByLabel", CalculateBeatPhase(phase), TimingValue)
        /\ emitted' = <<Ev("BeatInputCheck", TimingValue)>>
        /\ UNCHANGED <<clockVars, chartVars, seqVars, calVars, lastRequest,
                       chartObs, seqObs>>

----------------------------------------------------------------------------
(* Calibration sequence *)

MinCalibrationPrompts == 5
MaxCalibrationPrompts == 20

RECURSIVE SumSeq(_)
SumSeq(q) == IF q = <<>> THEN 0 ELSE Head(q) + SumSeq(Tail(q))

\* the calibration members as a record
CalHere == [CalibrationTotalPrompts |-> CalibrationTotalPrompts,
            CalibrationPromptsRemaining |-> CalibrationPromptsRemaining,
            CalibrationOffsets |-> CalibrationOffsets,
            ev |-> <<>>]

CalibrationComplete(offset, ok) == [ev |-> "CalibrationComplete", n |-> offset, ok |-> ok]

\* CompleteCalibrationSequence: the mean of the samples (0 and failure when
\* there is none), the broadcast, the reset
CompleteCalibrationSequence(c) ==
    LET Count == Len(c.CalibrationOffsets)
        bSuccess == Count > 0
        CalculatedOffset == IF Count > 0 THEN SumSeq(c.CalibrationOffsets) \div Count ELSE 0
    IN  [CalibrationTotalPrompts |-> 0,
         CalibrationPromptsRemaining |-> 0,
         CalibrationOffsets |-> <<>>,
         ev |-> Append(c.ev, CalibrationComplete(CalculatedOffset, bSuccess))]

CalCommit(c) ==
    /\ CalibrationTotalPrompts' = c.CalibrationTotalPrompts
    /\ CalibrationPromptsRemaining' = c.CalibrationPromptsRemaining
    /\ CalibrationOffsets' = c.CalibrationOffsets
    /\ emitted' = c.ev
    /\ UNCHANGED <<clockVars, chartVars, seqVars, TimingCurve, lastRequest,
                   chartObs, seqObs>>

RunCalibrationSequence(NumPrompts) ==
    LET ClampedPrompts == Clamp(NumPrompts, MinCalibrationPrompts, MaxCalibrationPrompts)
    IN  /\ lastOp' = Call("RunCalibrationSequence", NumPrompts, 0)
        /\ CalCommit(CompleteCalibrationSequence(
                         [CalHere EXCEPT !.CalibrationTotalPrompts = ClampedPrompts,
                                         !.CalibrationPromptsRemaining = ClampedPrompts,
                                         !.CalibrationOffsets = <<>>]))

ProcessCalibrationInput(TimingValue) ==
    LET c == [CalHere EXCEPT !.CalibrationOffsets = Append(@, TimingValue),
                             !.CalibrationPromptsRemaining = @ - 1]
    IN  /\ lastOp' = Call("ProcessCalibrationInput", TimingValue, 0)
        /\ CalCommit(IF c.CalibrationPromptsRemaining <= 0
                     THEN CompleteCalibrationSequence(c) ELSE c)

MissResult == [bHit |-> FALSE, Accuracy |-> 0, TimingDirection |-> "Late",
               TimingOffset |-> 0, note |-> -1]

CheckBeatTimingByTag(InputTag, x, phase) ==
    LET CurrentTime == GetCurrentPlaybackTime(x)
    IN
    /\ lastOp' = Call("CheckBeatTimingByTag", InputTag, CurrentTime)
    /\ IF Len(CachedNotesSorted) = 0 \/ InputTag = InvalidTag
       THEN LET acc == CheckBeatTimingInternal(phase)
            IN  /\ lastResult' = [bHit |-> FALSE, Accuracy |-> acc,
                                  TimingDirection |-> "OnTime", TimingOffset |-> 0,
                                  note |-> -1]
                /\ emitted' = <<Ev("BeatInputCheck", acc)>>
                /\ UNCHANGED <<chartVars, matched>>
       ELSE LET i == GetNextNoteForTag(InputTag, CurrentTime)
            IN  IF i = -1
                THEN /\ lastResult' = MissResult
                     /\ emitted' = <<>>
                     /\ UNCHANGED <<chartVars, matched>>
                ELSE LET FoundNote == CachedNotesSorted[i + 1]
                         NoteTimestamp == FrameToSeconds(FoundNote.Timestamp,
                                                         CachedSequenceFrameRate)
                         TimingOffset == CurrentTime - NoteTimestamp
                         PreTimingSeconds == ConvertMusicalNoteToSeconds(
                                                 GetPreTiming(FoundNote.NoteData), CurrentBPM)
                         PostTimingSeconds == ConvertMusicalNoteToSeconds(
                                                 GetPostTiming(FoundNote.NoteData), CurrentBPM)
                         MaxTimingWindow == IF TimingOffset < 0 THEN PreTimingSeconds
                                            ELSE PostTimingSeconds
                     IN  /\ lastResult' =
                              [bHit |-> TRUE,
                               Accuracy |-> Clamp(AccuracyScale
                                                    - (Abs(TimingOffset) * AccuracyScale)
                                                        \div MaxTimingWindow,
                                                  0, AccuracyScale),
                               TimingDirection |->
                                   IF Abs(TimingOffset) < OnTimeTolerance THEN "OnTime"
                                   ELSE IF TimingOffset < 0 THEN "Early" ELSE "Late",
                               TimingOffset |-> TimingOffset,
                               note |-> i]
                         /\ CurrentNoteIndex' = i
                         /\ ConsumedNoteTimestamps' =
                                ConsumedNoteTimestamps \cup {FoundNote.Timestamp}
                         /\ matched' = matched \cup {i}
                         /\ emitted' = <<>>
                         /\ UNCHANGED <<CachedNotesSorted, CachedSequenceFrameRate>>
    /\ UNCHANGED <<clockVars, seqVars, calVars, lastRequest, seqObs>>

----------------------------------------------------------------------------
\* Initialize(): defaults, then RecreateTimerWithNewRate in real-time mode.
\* InitState(bpm, songs, rec, actor) is that state with the songs registered
\* and, for bpm other than the default, after SetBPM(bpm) was applied on a
\* whole-beat boundary (the old timer cleared, the new one deferred to the next
\* frame). actor is 1 when EnsureSongPlayerActor found a world and spawned the
\* player actor, 0 when there was no world yet.
InitState(bpm, songs, rec, actor) ==
    /\ CurrentBPM = bpm
    /\ PendingBPM = 0
    /\ CurrentBeatTick = 0
    /\ CalibrationOffsetMs = 0
    /\ bRespectTimeDilation = FALSE
    /\ bBeatBroadcastingEnabled = FALSE
    /\ CurrentSubdivision = "None"
    /\ BeatBroadcastTimer = [active |-> FALSE,
                             rate |-> IF bpm = DefaultBPM THEN 0
                                      ELSE GetTimerRate(DefaultBPM, 0)]
    /\ deferredTimerRate = GetTimerRate(bpm, 0)
    /\ CachedNotesSorted = <<>>
    /\ ConsumedNoteTimestamps = {}
    /\ CurrentNoteIndex = 0
    /\ CachedSequenceFrameRate = 60
    /\ RegisteredSongs = songs
    /\ QueuedSongs = <<>>
    /\ QueuedTracks = <<>>
    /\ CurrentlyPlayingSong = 0
    /\ CurrentTrackInfo = NoTrack
    /\ TrackDelayTimer = NoTimer
    /\ CurrentNoteChartSequence = 0
    /\ SongPlayerActor = actor
    /\ actorsSpawned = actor
    /\ player = NoPlayer
    /\ TimingCurve = 0
    /\ CalibrationPromptsRemaining = 0
    /\ CalibrationTotalPrompts = 0
    /\ CalibrationOffsets = <<>>
    /\ lastOp = Call("Initialize", 0, 0)
    /\ emitted = <<>>
    /\ lastRequest = 0
    /\ lastResult = MissResult
    /\ matched = {}
    /\ openTrack = -1
    /\ recording = rec
    /\ eventLog = <<>>

Init == InitState(DefaultBPM, {}, FALSE, 1)

Next ==
    \/ \E f \in BPMInputs : SetBPM(f)
    \/ \E b \in BOOLEAN : SetRespectTimeDilation(b)
    \/ \E ms \in CalibrationInputs : SetCalibrationOffset(ms)
    \/ DeferredSetTimer
    \/ BroadcastBeatEvent

Spec == Init /\ [][Next]_vars

----------------------------------------------------------------------------
(* The note chart: standalone chart playback and tag queries *)

\* what the time sources can return: player frames and wall-clock times
Frames == {78, 89, 90, 96, 99, 100, 120, 125, 130, 131, 135, 136, 160, 181}
WallTimes == {19200, 24000, 12000000}
\* what the timer can return as phase, scaled by AccuracyScale
Phases == {-1000, -500, 0, 500, 1000}
Tags == {InvalidTag, TagX, TagY}
TimeReadings == IF SongPlayerActor # 0 /\ player.playing THEN Frames ELSE WallTimes

InitChart == \E bpm \in {DefaultBPM, 180} : InitState(bpm, {}, FALSE, 1)

NextChart ==
    \/ \E a \in LevelSequences \cup {0}, o \in SortChoices : PlayNoteChartSequence(a, o)
    \/ StopNoteChartSequence
    \/ ResetConsumedNotes
    \/ \E o \in SortChoices : OnSongPlayerFinished(o)
    \/ DeferredSetTimer
    \/ \E tag \in Tags, x \in TimeReadings, ph \in Phases : CheckBeatTimingByTag(tag, x, ph)

SpecChart == InitChart /\ [][NextChart]_vars

----------------------------------------------------------------------------
(* The sequencer: the song registry, songs, tracks and standalone charts *)

InitSeq == \E actor \in {0, 1} : InitState(DefaultBPM, {}, FALSE, actor)

NextSeq ==
    \/ \E s \in Songs : RegisterSong(s)
    \/ \E s \in Songs : UnregisterSong(s)
    \/ \E s \in Songs, q \in BOOLEAN, o \in SortChoices :
          /\ q => Len(QueuedSongs) < MaxQueuedSongs
          /\ PlaySongByTag(s, q, o)
    \/ StopCurrentSong
    \/ \E a \in LevelSequences \cup {0}, o \in SortChoices : PlayNoteChartSequence(a, o)
    \/ StopNoteChartSequence
    \/ \E o \in SortChoices : TrackDelayTimerFires(o)
    \/ \E o \in SortChoices : OnSongPlayerFinished(o)

SpecSeq == InitSeq /\ [][NextSeq]_vars

----------------------------------------------------------------------------
(* One play of song 1 (two tracks, delays 0 s and 3 s, no loops), with the   *)
(* broadcasts recorded in eventLog.                                          *)

InitSong == InitState(DefaultBPM, {1}, TRUE, 1)

PlaySongOnce ==
    /\ eventLog = <<>>
    /\ CurrentlyPlayingSong = 0
    /\ \E o \in SortChoices : PlaySongByTag(1, FALSE, o)

NextSong ==
    \/ PlaySongOnce
    \/ \E o \in SortChoices : TrackDelayTimerFires(o)
    \/ \E o \in SortChoices : OnSongPlayerFinished(o)
    \/ \E tag \in Tags, x \in TimeReadings, ph \in Phases : CheckBeatTimingByTag(tag, x, ph)

SpecSong == InitSong /\ [][NextSong]_vars

----------------------------------------------------------------------------
(* Claims about the clock, checked under Spec *)

\* the step is the tick that brings the counter to a whole-beat boundary
BoundaryTick == lastOp'.op = "BroadcastBeatEvent" /\ (CurrentBeatTick + 1) % InternalSubdivision = 0

\* C1 (as stated): after SetBPM(v), v in [20,400], GetBPM() keeps the prior
\* value until the tick on which the counter reaches the next multiple of 16,
\* and on that tick it becomes v and the counter is reset to 0.
C1_AsStated ==
    [][ lastRequest # 0 =>
          /\ (lastOp'.op = "SetBPM" => GetBPM' = GetBPM)
          /\ (BoundaryTick => GetBPM' = lastRequest /\ CurrentBeatTick' = 0) ]_vars

\* C1 (amended): SetBPM(v), v in [20,400], never changes GetBPM() at the call
\* and GetBPM() keeps its value on every step before the boundary tick.  If v
\* differed from the current BPM, the boundary tick makes GetBPM() = v and
\* resets the counter to 0.  If v was the current BPM the call had no effect:
\* a value queued earlier is still applied on the boundary tick, and with
\* nothing queued the BPM stays and the counter runs on to 16 without a reset.
C1_QueuedUntilBoundary ==
    [][ lastRequest # 0 =>
          /\ (lastOp'.op = "SetBPM" =>
                /\ GetBPM' = GetBPM
                /\ CurrentBeatTick' = CurrentBeatTick
                /\ (lastRequest' = GetBPM => PendingBPM' = PendingBPM))
          /\ (~BoundaryTick /\ lastOp'.op # "SetBPM.invalid" => GetBPM' = GetBPM)
          /\ (BoundaryTick /\ lastRequest # GetBPM =>
                GetBPM' = lastRequest /\ CurrentBeatTick' = 0)
          /\ (BoundaryTick /\ lastRequest = GetBPM =>
                IF PendingBPM > 0
                THEN GetBPM' = PendingBPM /\ CurrentBeatTick' = 0
                ELSE GetBPM' = GetBPM /\ CurrentBeatTick' = CurrentBeatTick + 1) ]_vars

\* a queued 180 has just been applied on a boundary tick
C1_Witness ==
    /\ lastOp.op = "BroadcastBeatEvent"
    /\ emitted = <<[ev |-> "BPMChanged", n |-> 180]>>
    /\ GetBPM = 180
    /\ CurrentBeatTick = 0

\* C9: after any sequence of SetBPM calls (valid, out of range, invalid) and
\* ticks, GetBPM() is strictly positive and within [20,400].
C9_BPMInRange == GetBPM > 0 /\ GetBPM >= MinBPM /\ GetBPM <= MaxBPM

\* an out-of-range request (500) was clamped and applied
C9_Witness == GetBPM = MaxBPM /\ lastOp.op = "BroadcastBeatEvent"

\* C10: SetBPM with an input <= 0, NaN or infinite leaves GetBPM() = 120
\* with nothing queued and the clock restarted (counter 0, timer re-created
\* at the 120 BPM rate); while nothing is queued no step other than such a
\* reset changes GetBPM().
C10_InvalidResetsTo120 ==
    [][ /\ (lastOp'.op = "SetBPM.invalid" =>
              /\ GetBPM' = DefaultBPM
              /\ PendingBPM' = 0
              /\ CurrentBeatTick' = 0
              /\ LET rate == GetTimerRate(DefaultBPM, CalibrationOffsetMs)
                 IN  \/ deferredTimerRate' = rate
                     \/ BeatBroadcastTimer' = SetTimer(rate))
        /\ (PendingBPM = 0 /\ lastOp'.op # "SetBPM.invalid" => GetBPM' = GetBPM) ]_vars

\* an invalid SetBPM arrived while the clock was running at 180 BPM
C10_Witness ==
    /\ lastOp.op = "SetBPM.invalid"
    /\ GetBPM = DefaultBPM
    /\ PendingBPM = 0
    /\ CurrentBeatTick = 0
    /\ BeatBroadcastTimer.rate = GetTimerRate(180, CalibrationOffsetMs)
    /\ deferredTimerRate = GetTimerRate(DefaultBPM, CalibrationOffsetMs)


----------------------------------------------------------------------------
(* Claims about the note chart, checked under SpecChart *)

\* C2: until the chart is reloaded or the consumed notes are reset, a note
\* that a query has matched and consumed is never returned by a later query.
\* matched holds the indices returned since the last load or reset.
C2_ConsumedNeverReturnedAgain ==
    [][ lastOp'.op = "CheckBeatTimingByTag" /\ lastResult'.note # -1
          => lastResult'.note \notin matched ]_vars

\* a query for the tag of a consumed note, inside that note's window, that
\* found no match
C2_Witness ==
    /\ lastOp.op = "CheckBeatTimingByTag"
    /\ lastResult.note = -1
    /\ \E i \in matched :
          LET n == CachedNotesSorted[i + 1]
          IN  /\ NoteTag(n.NoteData) = lastOp.a
              /\ WindowStart(n, CurrentBPM, CachedSequenceFrameRate) <= lastOp.b
              /\ lastOp.b <= WindowEnd(n, CurrentBPM, CachedSequenceFrameRate)

C8_AsStated ==
    [][ lastOp'.op = "CheckBeatTimingByTag" /\ lastOp'.a # InvalidTag =>
          LET t == lastOp'.b
              T(n) == FrameToSeconds(n.Timestamp, CachedSequenceFrameRate)
              P(n) == ConvertMusicalNoteToSeconds(GetPreTiming(n.NoteData), CurrentBPM)
              Q(n) == ConvertMusicalNoteToSeconds(GetPostTiming(n.NoteData), CurrentBPM)
              hit == lastResult'.note
          IN  /\ hit # -1 =>
                    LET n == CachedNotesSorted[hit + 1]
                    IN  T(n) - P(n) <= t /\ t <= T(n) + Q(n)
              /\ \A i \in CurrentNoteIndex .. (Len(CachedNotesSorted) - 1) :
                    LET n == CachedNotesSorted[i + 1]
                    IN  (/\ n.Timestamp \notin ConsumedNoteTimestamps
                         /\ NoteTag(n.NoteData) = lastOp'.a
                         /\ T(n) - P(n) <= t
                         /\ t <= T(n) + Q(n))
                        => lastResult'.bHit ]_vars

\* C8 (amended): a query returns a note only if T - P <= t <= T + Q for it,
\* both edges inclusive, an early input bounded by P only and a late one by Q
\* only; and the first note of the queried tag at or after the cursor that is
\* not consumed and whose window has not ended before t is hit if and only if
\* T - P <= t <= T + Q; no other note is hit.
C8_WindowDecidesFirstCandidate ==
    [][ lastOp'.op = "CheckBeatTimingByTag" /\ lastOp'.a # InvalidTag =>
          LET t == lastOp'.b
              T(n) == FrameToSeconds(n.Timestamp, CachedSequenceFrameRate)
              P(n) == ConvertMusicalNoteToSeconds(GetPreTiming(n.NoteData), CurrentBPM)
              Q(n) == ConvertMusicalNoteToSeconds(GetPostTiming(n.NoteData), CurrentBPM)
              cand == {i \in CurrentNoteIndex .. (Len(CachedNotesSorted) - 1) :
                         LET n == CachedNotesSorted[i + 1]
                         IN  /\ n.Timestamp \notin ConsumedNoteTimestamps
                             /\ NoteTag(n.NoteData) = lastOp'.a
                             /\ t <= T(n) + Q(n)}
              hit == lastResult'.note
          IN  /\ lastResult'.bHit <=> hit # -1
              /\ hit # -1 =>
                    LET n == CachedNotesSorted[hit + 1]
                    IN  /\ T(n) - P(n) <= t /\ t <= T(n) + Q(n)
                        /\ lastResult'.TimingOffset = t - T(n)
                        /\ t < T(n) => T(n) - t <= P(n)
                        /\ t >= T(n) => t - T(n) <= Q(n)
              /\ cand = {} => hit = -1
              /\ cand # {} =>
                    LET c == CHOOSE i \in cand : \A j \in cand : i <= j
                        n == CachedNotesSorted[c + 1]
                    IN  /\ hit \in {-1, c}
                        /\ hit = c <=> (T(n) - P(n) <= t /\ t <= T(n) + Q(n)) ]_vars

\* a query exactly on the early edge of a window (t = T - P) was a hit
C8_Witness ==
    /\ lastOp.op = "CheckBeatTimingByTag"
    /\ lastResult.bHit
    /\ lastResult.note # -1
    /\ LET n == CachedNotesSorted[lastResult.note + 1]
       IN  /\ lastOp.b = WindowStart(n, CurrentBPM, CachedSequenceFrameRate)
           /\ lastResult.TimingOffset =
                 -ConvertMusicalNoteToSeconds(GetPreTiming(n.NoteData), CurrentBPM)


----------------------------------------------------------------------------
(* Claims about the sequencer *)

\* C6: only one track plays at a time: a track-started event is broadcast only
\* while no track is open (every earlier track-started was followed by a
\* track-ended or song-ended), and every track is played through one player
\* actor, spawned at most once.
C6_OneTrackAtATime ==
    /\ [][ \A k \in 1 .. Len(emitted') :
             emitted'[k].ev = "TrackStarted"
               => OpenAfter(openTrack, SubSeq(emitted', 1, k - 1)) = -1 ]_vars
    /\ [](actorsSpawned <= 1)

\* C3: playing song 1 (tracks with delays 0 s and 3 s, no loops) broadcasts,
\* in this order, song-started and track-started(0) at once, track-ended(0)
\* when the first track finishes, track-started(1) only after a delay of 3 s,
\* track-ended(1) and song-ended when the second track finishes; then there is
\* no current song and the track queue is empty.
C3_EventOrder ==
    LET expected == <<Ev("SongStarted", 1), Ev("TrackStarted", 0), Ev("TrackEnded", 0),
                      Ev("TrackStarted", 1), Ev("TrackEnded", 1), Ev("SongEnded", 1)>>
    IN  /\ Len(eventLog) \in {0, 2, 3, 4, 6}
        /\ eventLog = SubSeq(expected, 1, Len(eventLog))
        /\ Len(eventLog) = 3 <=> TrackDelayTimer.pending
        /\ TrackDelayTimer.pending => TrackDelayTimer.delay = 3
        /\ Len(eventLog) \in {2, 3, 4} <=> CurrentlyPlayingSong = 1
        /\ Len(eventLog) \in {2, 4} <=> player.playing
        /\ Len(eventLog) = 6 =>
              /\ CurrentlyPlayingSong = 0
              /\ QueuedTracks = <<>>
              /\ QueuedSongs = <<>>

\* the song has ended and the sequencer is idle
C3_Witness ==
    /\ eventLog = <<Ev("SongStarted", 1), Ev("TrackStarted", 0), Ev("TrackEnded", 0),
                    Ev("TrackStarted", 1), Ev("TrackEnded", 1), Ev("SongEnded", 1)>>
    /\ CurrentlyPlayingSong = 0
    /\ QueuedTracks = <<>>
    /\ lastOp.op = "OnSongPlayerFinished"

\* C4 (as stated): PlaySongByTag(tag, enqueue = false) for a registered song
\* with at least one track leaves no queued song, broadcasts the song-ended
\* of an active song before the song-started of the requested song, starts no
\* other song, and makes the requested song the current song.
C4_AsStated ==
    [][ (/\ lastOp'.op = "PlaySongByTag"
         /\ lastOp'.b = 0
         /\ lastOp'.a \in RegisteredSongs
         /\ Len(SongTracks(lastOp'.a)) >= 1)
        =>
        LET stop == IF CurrentlyPlayingSong # 0
                    THEN <<Ev("SongEnded", CurrentlyPlayingSong)>> ELSE <<>>
        IN  /\ QueuedSongs' = <<>>
            /\ Len(emitted') > Len(stop)
            /\ SubSeq(emitted', 1, Len(stop) + 1) = stop \o <<Ev("SongStarted", lastOp'.a)>>
            /\ \A k \in 1 .. Len(emitted') :
                  emitted'[k].ev = "SongStarted" => k = Len(stop) + 1
            /\ CurrentlyPlayingSong' = lastOp'.a ]_vars

\* C4 (amended): the same for a registered song with at least one track whose
\* sequence asset loads.
C4_ReplacesActiveSong ==
    [][ (/\ lastOp'.op = "PlaySongByTag"
         /\ lastOp'.b = 0
         /\ lastOp'.a \in RegisteredSongs
         /\ \E i \in 1 .. Len(SongTracks(lastOp'.a)) :
               AssetLoads(SongTracks(lastOp'.a)[i].TrackSequence))
        =>
        LET stop == IF CurrentlyPlayingSong # 0
                    THEN <<Ev("SongEnded", CurrentlyPlayingSong)>> ELSE <<>>
        IN  /\ QueuedSongs' = <<>>
            /\ Len(emitted') > Len(stop)
            /\ SubSeq(emitted', 1, Len(stop) + 1) = stop \o <<Ev("SongStarted", lastOp'.a)>>
            /\ \A k \in 1 .. Len(emitted') :
                  emitted'[k].ev = "SongStarted" => k = Len(stop) + 1
            /\ CurrentlyPlayingSong' = lastOp'.a ]_vars

\* PlaySongByTag(tag, false) has stopped an active song and started tag
C4_Witness ==
    /\ lastOp.op = "PlaySongByTag"
    /\ lastOp.b = 0
    /\ Len(emitted) >= 2
    /\ emitted[1].ev = "SongEnded"
    /\ emitted[1].n # lastOp.a
    /\ emitted[2] = Ev("SongStarted", lastOp.a)
    /\ CurrentlyPlayingSong = lastOp.a
    /\ QueuedSongs = <<>>

\* C5 (as stated): StopCurrentSong on an active song stops the player, leaves
\* the track queue and the pending song queue empty, clears the chart index
\* and broadcasts song-ended; afterwards there is no current song.
C5_AsStated ==
    [][ lastOp'.op = "StopCurrentSong" /\ CurrentlyPlayingSong # 0 =>
          /\ ~player'.playing
          /\ ~TrackDelayTimer'.pending
          /\ QueuedTracks' = <<>>
          /\ QueuedSongs' = <<>>
          /\ CachedNotesSorted' = <<>>
          /\ ConsumedNoteTimestamps' = {}
          /\ CurrentNoteIndex' = 0
          /\ emitted' = <<Ev("SongEnded", CurrentlyPlayingSong)>>
          /\ CurrentlyPlayingSong' = 0 ]_vars

\* C5 (amended): StopCurrentSong on an active song stops the player, leaves
\* the track queue empty and the pending song queue as it was, clears the
\* chart index and broadcasts song-ended; afterwards there is no current song.
C5_StopCurrentSong ==
    [][ lastOp'.op = "StopCurrentSong" /\ CurrentlyPlayingSong # 0 =>
          /\ ~player'.playing
          /\ ~TrackDelayTimer'.pending
          /\ QueuedTracks' = <<>>
          /\ QueuedSongs' = QueuedSongs
          /\ CachedNotesSorted' = <<>>
          /\ ConsumedNoteTimestamps' = {}
          /\ CurrentNoteIndex' = 0
          /\ emitted' = <<Ev("SongEnded", CurrentlyPlayingSong)>>
          /\ CurrentlyPlayingSong' = 0 ]_vars

\* StopCurrentSong has stopped a song while another song was queued
C5_Witness ==
    /\ lastOp.op = "StopCurrentSong"
    /\ Len(emitted) = 1
    /\ emitted[1].ev = "SongEnded"
    /\ CurrentlyPlayingSong = 0
    /\ QueuedTracks = <<>>
    /\ QueuedSongs # <<>>

----------------------------------------------------------------------------
(* The clock with beat broadcasting switched on and off, checked under SpecBeat *)

BeatSubdivisions == {"Quarter", "Eighth"}
BeatBPMInputs == {Num(90), Num(150)}

NextBeat ==
    \/ \E s \in BeatSubdivisions : EnableBeatBroadcasting(s)
    \/ DisableBeatBroadcasting
    \/ \E f \in BeatBPMInputs : SetBPM(f)
    \/ DeferredSetTimer
    \/ BroadcastBeatEvent

SpecBeat == Init /\ [][NextBeat]_vars

\* the beat events among the broadcasts of a step
BeatEvents(evs) == SelectSeq(evs, LAMBDA e : e.ev = "Beat")

\* C11 (as stated): with Quarter broadcasting enabled, a beat event fires on
\* every tick that brings the counter to a multiple of 4 (4, 8, 12, 16) and on
\* no other tick, so any 16 consecutive ticks carry exactly 4 beat events.
C11_AsStated ==
    [][ /\ lastOp'.op = "BroadcastBeatEvent"
        /\ bBeatBroadcastingEnabled
        /\ CurrentSubdivision = "Quarter"
        => (Len(BeatEvents(emitted')) = 1) = ((CurrentBeatTick + 1) % 4 = 0) ]_vars

\* C11 (amended): with Quarter broadcasting enabled, a tick emits at most one
\* beat event, and emits one exactly when it brings the counter to a multiple
\* of 4 and does not apply a queued BPM change; the tick that applies a queued
\* BPM change (the 16th) emits no beat event and resets the counter to 0.
C11_QuarterEveryFourthTick ==
    [][ /\ lastOp'.op = "BroadcastBeatEvent"
        /\ bBeatBroadcastingEnabled
        /\ CurrentSubdivision = "Quarter"
        => LET tick == CurrentBeatTick + 1
               applies == PendingBPM > 0 /\ tick % InternalSubdivision = 0
           IN  /\ Len(BeatEvents(emitted')) <= 1
               /\ (Len(BeatEvents(emitted')) = 1) = (tick % 4 = 0 /\ ~applies)
               /\ Len(BeatEvents(emitted')) = 1 => CurrentBeatTick' = tick
               /\ applies => CurrentBeatTick' = 0 ]_vars

\* the 16th tick of a beat has broadcast the fourth Quarter beat event
C11_Witness ==
    /\ lastOp.op = "BroadcastBeatEvent"
    /\ bBeatBroadcastingEnabled
    /\ CurrentSubdivision = "Quarter"
    /\ CurrentBeatTick = InternalSubdivision
    /\ Len(BeatEvents(emitted)) = 1

----------------------------------------------------------------------------
(* Timing evaluation with and without a curve, checked under SpecEval *)

EvalSequences == {0, 1, 5}
EvalReadings == IF SongPlayerActor # 0 /\ player.playing THEN {96, 120} ELSE {24000}

NextEval ==
    \/ \E a \in EvalSequences, o \in SortChoices : PlayNoteChartSequence(a, o)
    \/ StopNoteChartSequence
    \/ DeferredSetTimer
    \/ \E c \in TimingCurves : SetTimingCurve(c)
    \/ \E ph \in Phases : CheckBeatTimingByLabel(ph)
    \/ \E tag \in Tags, x \in EvalReadings, ph \in Phases : CheckBeatTimingByTag(tag, x, ph)

SpecEval == InitChart /\ [][NextEval]_vars

\* C12: with no curve configured a timing check at beat phase p returns
\* 1 - |p| (p = 0 gives 1, p = +-0.5 gives 0.5, p = +-1 gives 0).
C12_FallbackIsOneMinusAbsPhase ==
    [][ lastOp'.op = "CheckBeatTimingByLabel" /\ TimingCurve = 0
        => lastOp'.b = AccuracyScale - Abs(lastOp'.a) ]_vars

\* C13: CheckBeatTimingByTag with no chart loaded or with an invalid tag
\* returns the accuracy of the fallback timing check, hit true exactly when
\* that accuracy is non-zero, and timing offset 0.
C13_FallbackHitMirrorsAccuracy ==
    [][ /\ lastOp'.op = "CheckBeatTimingByTag"
        /\ (Len(CachedNotesSorted) = 0 \/ lastOp'.a = InvalidTag)
        => /\ emitted' = <<Ev("BeatInputCheck", lastResult'.Accuracy)>>
           /\ lastResult'.bHit = (lastResult'.Accuracy # 0)
           /\ lastResult'.TimingOffset = 0 ]_vars

----------------------------------------------------------------------------
(* Loading charts over a chart already in use, checked under SpecLoad *)

NextLoad ==
    \/ \E a \in LevelSequences \cup {0}, o \in SortChoices : CallLoadNoteChartFromSequence(a, o)
    \/ ResetConsumedNotes
    \/ DeferredSetTimer
    \/ \E tag \in Tags, x \in WallTimes, ph \in Phases : CheckBeatTimingByTag(tag, x, ph)

SpecLoad == InitChart /\ [][NextLoad]_vars

\* the index holds no notes, no consumed keys and the cursor is 0
IndexEmpty ==
    /\ CachedNotesSorted = <<>>
    /\ ConsumedNoteTimestamps = {}
    /\ CurrentNoteIndex = 0

\* C14 (as stated): loading a null asset or an asset that contributes zero
\* notes returns false and leaves the index empty, whatever was loaded before.
C14_AsStated ==
    [][ /\ lastOp'.op = "LoadNoteChartFromSequence"
        /\ (lastOp'.a = 0 \/ AssetNotes(lastOp'.a) = <<>>)
        => lastOp'.b = FALSE /\ IndexEmpty' ]_vars

\* C14 (amended): loading an asset that contributes zero notes returns false
\* and leaves the index empty whatever was loaded before; loading a null asset
\* returns false and leaves the index exactly as it was; loading any other
\* asset returns true with its notes in the index, nothing consumed, cursor 0.
C14_FailedLoad ==
    [][ lastOp'.op = "LoadNoteChartFromSequence"
        => /\ lastOp'.a = 0 =>
                /\ lastOp'.b = FALSE
                /\ UNCHANGED chartVars
           /\ lastOp'.a # 0 /\ AssetNotes(lastOp'.a) = <<>> =>
                /\ lastOp'.b = FALSE
                /\ IndexEmpty'
           /\ lastOp'.a # 0 /\ AssetNotes(lastOp'.a) # <<>> =>
                /\ lastOp'.b = TRUE
                /\ Len(CachedNotesSorted') = Len(AssetNotes(lastOp'.a))
                /\ ConsumedNoteTimestamps' = {}
                /\ CurrentNoteIndex' = 0 ]_vars

\* a zero-note asset has been loaded over a chart with a consumed note
C14_Witness ==
    /\ lastOp.op = "LoadNoteChartFromSequence"
    /\ lastOp.a # 0
    /\ lastOp.b = FALSE
    /\ IndexEmpty
    /\ lastResult.bHit

----------------------------------------------------------------------------
(* The song queue with every song registered, checked under SpecQueue *)

MaxQueueDepth == 2
QueueSongs == {1, 3, 4}

InitQueue == InitState(DefaultBPM, QueueSongs, FALSE, 1)

NextQueue ==
    \/ \E s \in QueueSongs, q \in BOOLEAN, o \in SortChoices :
          /\ q => Len(QueuedSongs) < MaxQueueDepth
          /\ PlaySongByTag(s, q, o)
    \/ StopCurrentSong
    \/ \E o \in SortChoices : TrackDelayTimerFires(o)
    \/ \E o \in SortChoices : OnSongPlayerFinished(o)

SpecQueue == InitQueue /\ [][NextQueue]_vars

\* the songs started by a run of broadcasts, in order
SongsStarted(evs) ==
    LET started == SelectSeq(evs, LAMBDA e : e.ev = "SongStarted")
    IN  [i \in 1..Len(started) |-> started[i].n]

IsPrefix(p, q) == Len(p) <= Len(q) /\ \A i \in 1..Len(p) : p[i] = q[i]

\* does every song-started of the run come while no song started earlier is
\* still waiting for its song-ended?  cur is the song started and not ended
RECURSIVE StartsFollowEnds(_, _)
StartsFollowEnds(cur, evs) ==
    IF evs = <<>> THEN TRUE
    ELSE LET e == Head(evs)
         IN  CASE e.ev = "SongStarted" -> cur = 0 /\ StartsFollowEnds(e.n, Tail(evs))
               [] e.ev = "SongEnded" -> StartsFollowEnds(0, Tail(evs))
               [] OTHER -> StartsFollowEnds(cur, Tail(evs))

\* a request with enqueue = true made while a song is active
EnqueueWhileActive ==
    lastOp'.op = "PlaySongByTag" /\ lastOp'.b = 1 /\ CurrentlyPlayingSong # 0

\* the queue as the step finds it, with the song the step enqueues
QueueOfStep ==
    IF lastOp'.op = "PlaySongByTag" /\ lastOp'.a \in RegisteredSongs
    THEN IF lastOp'.b = 1 THEN Append(QueuedSongs, lastOp'.a) ELSE <<lastOp'.a>>
    ELSE QueuedSongs

\* enqueueing does not interrupt, and songs leave the queue from its head
QueueIsFIFO ==
    /\ EnqueueWhileActive =>
          /\ emitted' = <<>>
          /\ QueuedSongs' = Append(QueuedSongs, lastOp'.a)
          /\ UNCHANGED <<CurrentlyPlayingSong, QueuedTracks, CurrentTrackInfo,
                         TrackDelayTimer, player, chartVars>>
    /\ IsPrefix(SongsStarted(emitted'), QueueOfStep)
    /\ QueueOfStep = SongsStarted(emitted') \o QueuedSongs'

\* C15: songs enqueued while a song is active do not interrupt
\* it; they start one at a time in the order they were enqueued, each only
\* after the song-ended of the song started before it.
C15_QueuedSongsStartInOrder ==
    [][ /\ QueueIsFIFO
        /\ StartsFollowEnds(CurrentlyPlayingSong, emitted') ]_vars

----------------------------------------------------------------------------
(* One play of a song with tracks that fail to load, checked under SpecSkip *)

\* song 5: tracks 0 and 2 fail to load, tracks 1 and 3 load; song 4: its only
\* track fails to load
SkipSongs == {4, 5}

InitSkip == InitState(DefaultBPM, SkipSongs, TRUE, 1)

PlaySkipSongOnce ==
    /\ eventLog = <<>>
    /\ CurrentlyPlayingSong = 0
    /\ \E s \in SkipSongs, o \in SortChoices : PlaySongByTag(s, FALSE, o)

NextSkip ==
    \/ PlaySkipSongOnce
    \/ \E o \in SortChoices : TrackDelayTimerFires(o)
    \/ \E o \in SortChoices : OnSongPlayerFinished(o)
    \/ \E tag \in Tags, x \in TimeReadings, ph \in Phases : CheckBeatTimingByTag(tag, x, ph)

SpecSkip == InitSkip /\ [][NextSkip]_vars

\* the broadcasts of a whole play of song s when every track that fails to
\* load is passed over
SkipExpected(s) ==
    IF s = 5
    THEN <<Ev("SongStarted", 5), Ev("TrackStarted", 1), Ev("TrackEnded", 1),
           Ev("TrackStarted", 3), Ev("TrackEnded", 3), Ev("SongEnded", 5)>>
    ELSE <<Ev("SongStarted", s), Ev("SongEnded", s)>>

\* C16: a track whose asset fails to load is skipped: no track-started or
\* track-ended is broadcast for it, and the sequencer goes on to the next
\* queued track, or to the completion of the song when none is left, instead
\* of stopping.
C16_FailedTrackSkipped ==
    /\ \A i \in 1..Len(eventLog) :
          eventLog[i].ev \in {"TrackStarted", "TrackEnded"} =>
              AssetLoads(SongTracks(eventLog[1].n)[eventLog[i].n + 1].TrackSequence)
    /\ eventLog # <<>> =>
          /\ eventLog[1].ev = "SongStarted"
          /\ eventLog = SubSeq(SkipExpected(eventLog[1].n), 1, Len(eventLog))
          /\ CurrentlyPlayingSong # 0 <=> eventLog # SkipExpected(eventLog[1].n)
    /\ CurrentlyPlayingSong # 0 =>
          /\ player.playing \/ TrackDelayTimer.pending
          /\ AssetLoads(CurrentTrackInfo.TrackSequence)

\* song 5 has been played to its end past both of its failing tracks
C16_Witness ==
    /\ eventLog = SkipExpected(5)
    /\ CurrentlyPlayingSong = 0
    /\ lastOp.op = "OnSongPlayerFinished"

----------------------------------------------------------------------------
(* Claims about the sequencer, checked under SpecSeq (continued) *)

\* C17: StopCurrentSong and StopNoteChartSequence are idempotent: a second
\* call right after the first changes no state and broadcasts nothing (in
\* particular no second song-ended).
C17_StopIsIdempotent ==
    [][ /\ lastOp.op \in {"StopCurrentSong", "StopNoteChartSequence"}
        /\ lastOp'.op = lastOp.op
        => /\ emitted' = <<>>
           /\ UNCHANGED <<clockVars, chartVars, seqVars, calVars>> ]_vars

\* StopCurrentSong has been called with no song active, after a stop that left
\* a queued song behind
C17_Witness ==
    /\ lastOp.op = "StopCurrentSong"
    /\ emitted = <<>>
    /\ CurrentlyPlayingSong = 0
    /\ QueuedSongs # <<>>
    /\ ~player.playing

----------------------------------------------------------------------------
(* Calibration sessions while the clock runs, checked under SpecCal *)

PromptCounts == {3, 5, 6, 25}
CalibrationSamples == {-40, 10, 30}
CalibrationOffsetInputs == {-201, -200, 0, 150, 200, 250}

NextCal ==
    \/ \E n \in PromptCounts : RunCalibrationSequence(n)
    \/ \E v \in CalibrationSamples : ProcessCalibrationInput(v)
    \/ \E ms \in CalibrationOffsetInputs : SetCalibrationOffset(ms)
    \/ DeferredSetTimer
    \/ BroadcastBeatEvent

SpecCal == Init /\ [][NextCal]_vars

\* C18: RunCalibrationSequence(n) leaves total = remaining = clamp(n, 5, 20)
\* and no samples; each ProcessCalibrationInput adds one sample and takes one
\* from remaining; the completion event is broadcast only by the input that
\* brings remaining to zero, with the mean of all samples and success = true,
\* and the session state is reset after it.
C18_SessionCompletesOnLastInput ==
    [][ /\ lastOp'.op = "RunCalibrationSequence" =>
              /\ CalibrationTotalPrompts' =
                     Clamp(lastOp'.a, MinCalibrationPrompts, MaxCalibrationPrompts)
              /\ CalibrationPromptsRemaining' = CalibrationTotalPrompts'
              /\ CalibrationOffsets' = <<>>
              /\ emitted' = <<>>
        /\ lastOp'.op = "ProcessCalibrationInput" =>
              LET samples == Append(CalibrationOffsets, lastOp'.a)
              IN  IF CalibrationPromptsRemaining = 1
                  THEN /\ emitted' = <<CalibrationComplete(SumSeq(samples) \div Len(samples),
                                                           TRUE)>>
                       /\ CalibrationTotalPrompts' = 0
                       /\ CalibrationPromptsRemaining' = 0
                       /\ CalibrationOffsets' = <<>>
                  ELSE /\ emitted' = <<>>
                       /\ CalibrationOffsets' = samples
                       /\ CalibrationPromptsRemaining' = CalibrationPromptsRemaining - 1
                       /\ UNCHANGED CalibrationTotalPrompts ]_vars

----------------------------------------------------------------------------
(* Claims about timing evaluation, checked under SpecEval (continued) *)

\* C19: every accuracy produced lies in [0,1]: the value CheckBeatTimingByLabel
\* returns, and the accuracy of the result of CheckBeatTimingByTag on its
\* fallback, no-match and match paths, also when the curve in use gives
\* values outside [0,1].
C19_AccuracyInUnitRange ==
    /\ lastResult.Accuracy \in 0..AccuracyScale
    /\ lastOp.op = "CheckBeatTimingByLabel" => lastOp.b \in 0..AccuracyScale
    /\ \A i \in 1..Len(emitted) :
          emitted[i].ev = "BeatInputCheck" => emitted[i].n \in 0..AccuracyScale

\* a timing check at the beat edge with the overshooting curve, whose raw
\* value there is below 0, has returned 0
C19_Witness ==
    /\ lastOp.op = "CheckBeatTimingByLabel"
    /\ TimingCurve = OvershootCurve
    /\ Abs(lastOp.a) = AccuracyScale
    /\ CurveGetFloatValue(TimingCurve, Abs(lastOp.a)) < 0
    /\ lastOp.b = 0

----------------------------------------------------------------------------
(* Claims about the calibration offset, checked under SpecCal *)

\* C20: after SetCalibrationOffset(ms), whatever the size of ms, the stored
\* calibration offset is ms clamped to [-200, 200] milliseconds.
C20_OffsetClamped ==
    [][ lastOp'.op = "SetCalibrationOffset" =>
          /\ lastOp'.a < MinCalibrationMs => CalibrationOffsetMs' = MinCalibrationMs
          /\ lastOp'.a > MaxCalibrationMs => CalibrationOffsetMs' = MaxCalibrationMs
          /\ lastOp'.a \in MinCalibrationMs..MaxCalibrationMs =>
                CalibrationOffsetMs' = lastOp'.a ]_vars

\* an offset above the range has been stored as 200 ms
C20_Witness ==
    /\ lastOp.op = "SetCalibrationOffset"
    /\ lastOp.a > MaxCalibrationMs
    /\ CalibrationOffsetMs = MaxCalibrationMs

----------------------------------------------------------------------------
(* Claims about beat broadcasting, checked under SpecBeat (continued) *)

\* C21: DisableBeatBroadcasting stops the beat events and nothing else: it
\* leaves the timer, the tick counter and a queued BPM as they are, and while
\* broadcasting is disabled every tick emits no beat event and still advances
\* the counter by one, or applies the queued BPM when it reaches the
\* whole-beat boundary.
C21_DisabledClockKeepsTicking ==
    [][ /\ lastOp'.op = "DisableBeatBroadcasting" =>
              /\ ~bBeatBroadcastingEnabled'
              /\ UNCHANGED <<BeatBroadcastTimer, deferredTimerRate, CurrentBeatTick,
                             CurrentBPM, PendingBPM>>
        /\ lastOp'.op = "BroadcastBeatEvent" /\ ~bBeatBroadcastingEnabled =>
              LET tick == CurrentBeatTick + 1
              IN  /\ BeatEvents(emitted') = <<>>
                  /\ IF PendingBPM > 0 /\ tick % InternalSubdivision = 0
                     THEN /\ CurrentBPM' = PendingBPM
                          /\ PendingBPM' = 0
                          /\ emitted' = <<[ev |-> "BPMChanged", n |-> PendingBPM]>>
                     ELSE /\ CurrentBeatTick' = tick
                          /\ BeatBroadcastTimer'.active
                          /\ UNCHANGED <<CurrentBPM, PendingBPM>> ]_vars

\* with broadcasting disabled and a BPM change queued the clock has ticked on
\* to tick 8 without a beat event
C21_Witness ==
    /\ lastOp.op = "BroadcastBeatEvent"
    /\ ~bBeatBroadcastingEnabled
    /\ CurrentSubdivision = "None"
    /\ CurrentBeatTick = 8
    /\ PendingBPM > 0
    /\ emitted = <<>>

----------------------------------------------------------------------------
(* Listeners classifying beat events, checked under SpecNote *)

NextNote ==
    \/ \E s \in Subdivisions : EnableBeatBroadcasting(s)
    \/ DeferredSetTimer
    \/ BroadcastBeatEvent
    \/ \E t \in Subdivisions : CallIsNoteSubdivision(t)

SpecNote == Init /\ [][NextNote]_vars

\* ticks of the 16-tick grid between two boundaries of a subdivision, written
\* out from the documentation of IsNoteSubdivision (part_016:64-84)
GridTicks(s) ==
    CASE s = "Whole" -> 16
      [] s = "Half" -> 8
      [] s = "Quarter" -> 4
      [] s = "Eighth" -> 2
      [] s = "Sixteenth" -> 1
      [] OTHER -> 0

\* C22: IsNoteSubdivision(event, target) is true exactly when target is the
\* event's broadcast subdivision or coarser and the event falls on a boundary
\* of target, and false when target is finer; for events broadcast at
\* Sixteenth: Whole iff index = 0, Half iff index % 8 = 0, Quarter iff
\* index % 4 = 0, Eighth iff index % 2 = 0, Sixteenth always.
C22_IsNoteSubdivision ==
    [][ lastOp'.op = "IsNoteSubdivision" =>
          LET e == emitted[1]
              target == GridTicks(lastOp'.a)
              broadcast == GridTicks(e.SubdivisionType)
          IN  lastOp'.b = (/\ target > 0
                           /\ target >= broadcast
                           /\ (e.n * broadcast) % target = 0) ]_vars

\* C23: the beat number (GetCurrentBeatNumber, carried by beat events and
\* timing results) counts the whole beats since the system started: no step
\* makes it smaller, whether a BPM change is applied or not.
C23_BeatNumberNeverDecreases ==
    [][ GetCurrentBeatNumber(CurrentBeatTick') >= GetCurrentBeatNumber(CurrentBeatTick) ]_vars

----------------------------------------------------------------------------
(* Claims about the chart index, checked under SpecChart (continued) *)

\* the notes a query for tag looks at: those from the cursor on that carry the
\* tag and whose timestamp is not among the consumed keys (0-based indices)
Candidates(tag) ==
    {i \in CurrentNoteIndex..(Len(CachedNotesSorted) - 1) :
        /\ CachedNotesSorted[i + 1].NoteData # 0
        /\ NoteTag(CachedNotesSorted[i + 1].NoteData) = tag
        /\ CachedNotesSorted[i + 1].Timestamp \notin ConsumedNoteTimestamps}

\* the candidates whose window has not ended before t
NotYetMissed(tag, t) ==
    {i \in Candidates(tag) :
        t <= WindowEnd(CachedNotesSorted[i + 1], CurrentBPM, CachedSequenceFrameRate)}

\* C24: a query is one forward pass from the cursor over the unconsumed notes
\* with the queried tag: notes whose window ended before t are passed over;
\* the first one whose window has not ended decides: if its window contains t
\* it is the match and the cursor moves to it, if its window starts after t the
\* pass stops with no match and the cursor stays.
C24_ForwardPass ==
    [][ /\ lastOp'.op = "CheckBeatTimingByTag"
        /\ Len(CachedNotesSorted) > 0
        /\ lastOp'.a # InvalidTag
        => LET open == NotYetMissed(lastOp'.a, lastOp'.b)
               first == CHOOSE i \in open : \A j \in open : i <= j
           IN  IF open # {} /\ lastOp'.b >= WindowStart(CachedNotesSorted[first + 1],
                                                        CurrentBPM, CachedSequenceFrameRate)
               THEN /\ lastResult'.bHit
                    /\ lastResult'.note = first
                    /\ CurrentNoteIndex' = first
               ELSE /\ ~lastResult'.bHit
                    /\ lastResult'.note = -1
                    /\ UNCHANGED CurrentNoteIndex ]_vars

\* a query has passed over earlier notes and matched the third note of the
\* chart
C24_Witness ==
    /\ lastOp.op = "CheckBeatTimingByTag"
    /\ lastResult.bHit
    /\ lastResult.note = 2
    /\ CurrentNoteIndex = 2
    /\ Cardinality(matched) = 1

----------------------------------------------------------------------------
(* Matching in a chart with pairwise distinct timestamps, checked under
   SpecMatch *)

MatchFrames == {100, 125, 130, 136, 160}
MatchReadings == IF SongPlayerActor # 0 /\ player.playing THEN MatchFrames ELSE {24000}

NextMatch ==
    \/ \E o \in SortChoices : PlayNoteChartSequence(DistinctChart, o)
    \/ StopNoteChartSequence
    \/ ResetConsumedNotes
    \/ DeferredSetTimer
    \/ \E tag \in {TagX, TagY}, x \in MatchReadings : CheckBeatTimingByTag(tag, x, 0)

SpecMatch == InitChart /\ [][NextMatch]_vars

DistinctTimestamps(ns) ==
    \A i, j \in 1..Len(ns) : i # j => ns[i].Timestamp # ns[j].Timestamp

\* the unconsumed notes with the tag, anywhere in the chart (0-based indices)
Unconsumed(tag) ==
    {i \in 0..(Len(CachedNotesSorted) - 1) :
        /\ CachedNotesSorted[i + 1].NoteData # 0
        /\ NoteTag(CachedNotesSorted[i + 1].NoteData) = tag
        /\ CachedNotesSorted[i + 1].Timestamp \notin ConsumedNoteTimestamps}

\* C25: in a chart with pairwise distinct timestamps, a query whose time is
\* not earlier than that of the only query that has hit since the load returns
\* a hit when some unconsumed note with the queried tag has its window
\* containing the time.  (Queries that miss leave the chart state unchanged, so
\* a state in which the only consumed note is the one the previous query hit is
\* the state after the load and that one query.)
C25_MatchingIsComplete ==
    [][ /\ lastOp.op = "CheckBeatTimingByTag"
        /\ lastResult.bHit
        /\ ConsumedNoteTimestamps = {CachedNotesSorted[lastResult.note + 1].Timestamp}
        /\ lastOp'.op = "CheckBeatTimingByTag"
        /\ lastOp'.b >= lastOp.b
        /\ DistinctTimestamps(CachedNotesSorted)
        /\ \E i \in Unconsumed(lastOp'.a) :
               InWindow(CachedNotesSorted[i + 1], lastOp'.b, CurrentBPM, CachedSequenceFrameRate)
        => lastResult'.bHit ]_vars

\* C26: consuming a note marks only that note: after a hit, every other note
\* of the chart that had not been matched before, a note with the same
\* timestamp included, is still unconsumed.
C26_ConsumesOnlyTheMatchedNote ==
    [][ /\ lastOp'.op = "CheckBeatTimingByTag"
        /\ lastResult'.bHit
        => \A i \in 0..(Len(CachedNotesSorted) - 1) :
               i \notin matched' =>
                   ~IsNoteConsumed(ConsumedNoteTimestamps', CachedNotesSorted[i + 1]) ]_vars

----------------------------------------------------------------------------
(* The order of the loaded chart, checked under SpecLoad *)

\* C27 as stated: after a successful load no two adjacent notes of the chart
\* have equal timestamps and every note is later than the one before it.
C27_AsStated ==
    [][ lastOp'.op = "LoadNoteChartFromSequence" /\ lastOp'.b = TRUE
        => \A i \in 1..(Len(CachedNotesSorted') - 1) :
               CachedNotesSorted'[i].Timestamp < CachedNotesSorted'[i + 1].Timestamp ]_vars

\* C27: after a successful load the chart holds the notes the asset's sections
\* contribute, each as often as it is contributed, and no note is earlier than
\* the one before it; notes with equal timestamps are kept, next to each other.
C27_AscendingWithTies ==
    [][ lastOp'.op = "LoadNoteChartFromSequence" /\ lastOp'.b = TRUE
        => /\ \A i \in 1..(Len(CachedNotesSorted') - 1) :
                  CachedNotesSorted'[i].Timestamp <= CachedNotesSorted'[i + 1].Timestamp
           /\ Len(CachedNotesSorted') = Len(AssetNotes(lastOp'.a))
           /\ \A k \in 1..Len(AssetNotes(lastOp'.a)) :
                  Cardinality({i \in 1..Len(CachedNotesSorted') :
                                   CachedNotesSorted'[i] = AssetNotes(lastOp'.a)[k]})
                    = Cardinality({i \in 1..Len(AssetNotes(lastOp'.a)) :
                                       AssetNotes(lastOp'.a)[i] = AssetNotes(lastOp'.a)[k]}) ]_vars

\* a load has returned true with two adjacent notes on the same timestamp
C27_Witness ==
    /\ lastOp.op = "LoadNoteChartFromSequence"
    /\ lastOp.b = TRUE
    /\ \E i \in 1..(Len(CachedNotesSorted) - 1) :
           /\ CachedNotesSorted[i].Timestamp = CachedNotesSorted[i + 1].Timestamp
           /\ CachedNotesSorted[i] # CachedNotesSorted[i + 1]

----------------------------------------------------------------------------
(* Claims about the clock, checked under Spec (continued) *)

\* C28: the most recent SetBPM call with a value in range made before a
\* whole-beat boundary determines the BPM after that boundary, also when its
\* value is the BPM current at the call: a change queued earlier is then
\* cancelled and the BPM stays.
C28_LastRequestWins ==
    [][ BoundaryTick /\ lastRequest # 0 => GetBPM' = lastRequest ]_vars

----------------------------------------------------------------------------
(* The order of work on a tick, checked under SpecBeat *)

C30_CalibrationKeepsTickCounter ==
    [][ lastOp'.op = "SetCalibrationOffset"
        => /\ CurrentBeatTick' = CurrentBeatTick
           /\ GetCurrentBeatNumber(CurrentBeatTick') = GetCurrentBeatNumber(CurrentBeatTick)
           /\ PendingBPM' = PendingBPM ]_vars

\* C31: for every BPM and calibration offset the clock can hold, the tick
\* interval (60/BPM)/16 + offset is strictly positive.
C31_TickIntervalPositive ==
    GetTimerRate(CurrentBPM, CalibrationOffsetMs) > 0

----------------------------------------------------------------------------
(* Song events, checked under SpecQueue (continued) *)

\* the song left started and not ended by a run of broadcasts that alternate
\* song-started and song-ended, beginning from the open song cur (0 is none);
\* -1 when a song-started comes while a song is open or a song-ended comes
\* while none is
RECURSIVE OpenSongAfter(_, _)
OpenSongAfter(cur, evs) ==
    IF evs = <<>> \/ cur = -1 THEN cur
    ELSE LET e == Head(evs)
         IN  CASE e.ev = "SongStarted" ->
                    OpenSongAfter(IF cur = 0 THEN e.n ELSE -1, Tail(evs))
               [] e.ev = "SongEnded" ->
                    OpenSongAfter(IF cur # 0 /\ e.n = cur THEN 0 ELSE -1, Tail(evs))
               [] OTHER -> OpenSongAfter(cur, Tail(evs))

\* C32: song-started and song-ended strictly alternate, beginning with
\* song-started: in every step the broadcasts alternate from the current song,
\* each song-ended is for the song started last, and a song whose song-ended
\* has not come yet is still the current song after the step (so that its
\* song-ended is still to come); songs with zero tracks and songs whose tracks
\* all fail to load are no exception.
C32_StartedAndEndedAlternate ==
    [][ OpenSongAfter(CurrentlyPlayingSong, emitted') = CurrentlyPlayingSong' ]_vars

\* C33: a song with zero tracks that PlaySong dequeues is skipped within the
\* same call: if another song is queued behind it, that song is dequeued and
\* started next; if the queue is empty the sequencer is left idle, with no
\* current song, no queued track, no pending track delay and nothing playing.
C33_ZeroTrackSongSkipped ==
    [][ LET started == SongsStarted(emitted')
        IN  /\ IsPrefix(started, QueueOfStep)
            /\ \A i \in 1..Len(started) :
                  SongTracks(started[i]) = <<>> =>
                      IF Len(QueueOfStep) > i
                      THEN /\ Len(started) > i
                           /\ started[i + 1] = QueueOfStep[i + 1]
                           /\ Len(QueuedSongs') < Len(QueueOfStep) - i
                      ELSE /\ Len(started) = i
                           /\ CurrentlyPlayingSong' = 0
                           /\ QueuedSongs' = <<>>
                           /\ QueuedTracks' = <<>>
                           /\ ~TrackDelayTimer'.pending
                           /\ ~player'.playing ]_vars

\* a zero-track song was started and skipped, and the song queued behind it
\* was started in the same call and is now the current song
C33_Witness ==
    /\ Len(emitted) >= 2
    /\ \E i \in 1..(Len(emitted) - 1) :
          /\ emitted[i] = Ev("SongStarted", 3)
          /\ emitted[i + 1] = Ev("SongStarted", 1)
    /\ CurrentlyPlayingSong = 1
    /\ player.playing

----------------------------------------------------------------------------
(* Claims about the sequencer, checked under SpecSeq (continued) *)

\* C34: a song that has been unregistered and not registered again never
\* starts: every song-started is for a song that is registered when the step
\* that broadcasts it begins, also when the song was waiting in the song queue.
C34_OnlyRegisteredSongsStart ==
    [][ \A i \in 1..Len(SongsStarted(emitted')) :
            SongsStarted(emitted')[i] \in RegisteredSongs ]_vars


----------------------------------------------------------------------------
(* Stopping and replacing songs with the broadcasts recorded, checked under
   SpecStop *)

StopSongs == {1, 2}
MaxLoggedEvents == 5

InitStop == InitState(DefaultBPM, StopSongs, TRUE, 1)

NextStop ==
    \/ \E s \in StopSongs, o \in SortChoices :
          /\ Len(eventLog) < MaxLoggedEvents
          /\ PlaySongByTag(s, FALSE, o)
    \/ StopCurrentSong
    \/ \E o \in SortChoices : TrackDelayTimerFires(o)
    \/ \E o \in SortChoices : OnSongPlayerFinished(o)

SpecStop == InitStop /\ [][NextStop]_vars

\* a song is stopped, by StopCurrentSong or by a replacing PlaySongByTag,
\* while one of its tracks is waiting out its start delay
StoppedDuringDelay ==
    /\ \/ lastOp'.op = "StopCurrentSong"
       \/ lastOp'.op = "PlaySongByTag" /\ lastOp'.b = 0 /\ lastOp'.a \in RegisteredSongs
    /\ CurrentlyPlayingSong # 0
    /\ TrackDelayTimer.pending

\* C35: when a song is stopped while one of its tracks is waiting out its start
\* delay, the step ends the song first and cancels the delay: a track-started
\* in the step comes only after the song-started of the replacing song, and
\* after the step a delay is pending only for a track of the replacing song;
\* with no replacing song no delay is pending and no song is current, so the
\* waiting track never starts.
C35_StoppedTrackNeverStarts ==
    [][ StoppedDuringDelay
        => /\ emitted' # <<>>
           /\ emitted'[1] = Ev("SongEnded", CurrentlyPlayingSong)
           /\ \A i \in 1..Len(emitted') :
                 emitted'[i].ev = "TrackStarted" =>
                     \E j \in 1..(i - 1) : emitted'[j].ev = "SongStarted"
           /\ TrackDelayTimer'.pending =>
                 /\ SongsStarted(emitted') # <<>>
                 /\ CurrentlyPlayingSong' = SongsStarted(emitted')[Len(SongsStarted(emitted'))]
                 /\ TrackDelayTimer'.delay = CurrentTrackInfo'.DelayOffset
           /\ SongsStarted(emitted') = <<>> =>
                 /\ CurrentlyPlayingSong' = 0
                 /\ ~TrackDelayTimer'.pending
                 /\ ~TrackDelayTimer'.valid ]_vars

\* song 1 was stopped while its second track was waiting out its delay of 3 s:
\* the first track has ended, the second has not started, the song has ended
\* and no delay is pending
C35_Witness ==
    /\ lastOp.op = "StopCurrentSong"
    /\ eventLog = <<Ev("SongStarted", 1), Ev("TrackStarted", 0), Ev("TrackEnded", 0),
                    Ev("SongEnded", 1)>>
    /\ CurrentlyPlayingSong = 0
    /\ ~TrackDelayTimer.pending

----------------------------------------------------------------------------
(* Claims about the sequencer, checked under SpecSeq (continued) *)

\* C36: while a track of a song is playing, the standalone operations
\* PlayNoteChartSequence and StopNoteChartSequence leave the player, the asset
\* it plays and the chart of the track as they are.
C36_StandaloneLeavesSongAlone ==
    [][ /\ lastOp'.op \in {"PlayNoteChartSequence", "StopNoteChartSequence"}
        /\ CurrentlyPlayingSong # 0
        /\ player.playing
        /\ player.seq = CurrentTrackInfo.TrackSequence
        => /\ player' = player
           /\ CachedNotesSorted' = CachedNotesSorted
           /\ ConsumedNoteTimestamps' = ConsumedNoteTimestamps
           /\ CurrentNoteIndex' = CurrentNoteIndex ]_vars

----------------------------------------------------------------------------
(* Claims about the clock, checked under Spec (continued) *)

\* C37: every step that changes the value of GetBPM() broadcasts exactly one
\* BPM-changed event, carrying the new value; the reset to 120 by an invalid
\* SetBPM is no exception.
C37_BPMChangeAnnounced ==
    [][ GetBPM' # GetBPM
        => emitted' = <<[ev |-> "BPMChanged", n |-> GetBPM']>> ]_vars

----------------------------------------------------------------------------
(* Claims about the chart index, checked under SpecChart (continued) *)

\* C38: every consumed key is the timestamp of a note of the loaded chart,
\* in every state reached through loads, clears, resets and matches.
C38_ConsumedKeysAreNoteKeys ==
    \A k \in ConsumedNoteTimestamps :
        \E i \in 1..Len(CachedNotesSorted) : CachedNotesSorted[i].Timestamp = k

\* two notes on different timestamps have been matched and both keys are in
\* the consumed set
C38_Witness ==
    /\ Cardinality(ConsumedNoteTimestamps) = 2
    /\ Cardinality(matched) = 2
    /\ lastOp.op = "CheckBeatTimingByTag"
    /\ lastResult.bHit

----------------------------------------------------------------------------
(* The subdivision index of beat events, checked under SpecBeat *)

----------------------------------------------------------------------------
(* Claims about the sequencer, checked under SpecSeq (continued) *)

\* C40: whenever there is no current song, the track queue is empty and no
\* track start delay is pending.
C40_IdleHasNoTracks ==
    CurrentlyPlayingSong = 0 => QueuedTracks = <<>> /\ ~TrackDelayTimer.pending

\* the current song 1 was unregistered and thereby stopped: no song is
\* current, no track is queued and no delay is pending
C40_Witness ==
    /\ lastOp.op = "UnregisterSong"
    /\ emitted = <<Ev("SongEnded", 1)>>
    /\ CurrentlyPlayingSong = 0
    /\ QueuedTracks = <<>>
    /\ ~TrackDelayTimer.pending
====
